---- MODULE Spec2Model ----
(***************************************************************************)
(* State-machine model of the audio-transcriber repository:                *)
(*   - the capture pipeline (AudioRecorder driven by App) in the browser,  *)
(*   - the transcription endpoint of the server,                           *)
(*   - the multipart decoder (parseMultipartFormData),                     *)
(*   - the WAV container encoder (renderWavFile).                          *)
(* Each part has its own specification; the variables of the other parts   *)
(* stay at their initial values.                                           *)
(***************************************************************************)
EXTENDS Integers, Sequences, FiniteSets, TLC

VARIABLES
  \* ---- AudioRecorder fields (src/unnamed/part_002:4-15)
  isRecording,      \* private isRecording
  intervalId,       \* private intervalId: "null" or "set"
  dev,              \* stream, audioContext, streamSource, analyser, processor: held or null
  audioChunks,      \* private audioChunks: sequence of frames (Float32Array copies)
  startPc,          \* position of a startRecording invocation: "idle" or "awaitMedia"
  \* ---- browser environment of the recorder
  timers,           \* number of live intervals created by setInterval and not cleared
  nextSample,       \* the next sample value the device delivers
  \* ---- App fields (src/src/client/app.ts:5-13)
  appIsRecording,   \* App.isRecording
  startDisabled,    \* startButton.disabled
  stopDisabled,     \* stopButton.disabled
  statusText,       \* statusText.textContent
  transcriptionHistory,
  outstanding,      \* sends of handleAudioData that have not completed: chunk numbers
  \* ---- history of the capture run
  sessions,         \* number of startRecording invocations so far
  appended,         \* frames pushed by onaudioprocess since the buffer was last reset by start
  drained,          \* sample sequences taken out of the buffer since then
  emitted,          \* blobs passed to onDataAvailable, in order (all sessions)
  surfaced,         \* error thrown by the last AudioRecorder.startRecording, "none" if none
  appError,         \* errorMessage chosen by App.startRecording's catch, "none" if none
  lastOp,           \* the handler that ran last and what it did
  \* ---- an AudioRecorder whose methods are invoked directly (src/unnamed/part_002)
  pendingStarts,    \* startRecording invocations suspended at "await getUserMedia"
  liveStreams,      \* MediaStreams obtained whose tracks have not been stopped
  liveProcessors,   \* connected ScriptProcessorNodes whose onaudioprocess is set
  \* ---- one run of parseMultipartFormData (src/src/server/utils.ts:57-146)
  decIn,            \* the boundary and the fields the body is built from
  decOut,           \* what the returned promise settled with
  \* ---- the server (src/src/server/server.ts)
  svcType,          \* TRANSCRIPTION_SERVICE: "aws" or "openai"
  wavFile,          \* content of WAV_FILE_PATH (temp/out.wav)
  reqs,             \* the POST /api/transcribe requests, by number
  \* ---- one run of renderWavFile (src/src/server/utils.ts:235-352)
  encIn,            \* the sample buffer and the WavOptions
  encOut            \* the bytes returned

cvars == <<isRecording, intervalId, dev, audioChunks, startPc, timers, nextSample,
           appIsRecording, startDisabled, stopDisabled, statusText,
           transcriptionHistory, outstanding, sessions, appended, drained, emitted,
           surfaced, appError, lastOp, pendingStarts, liveStreams, liveProcessors>>
rvars == <<pendingStarts, liveStreams, liveProcessors>>

dvars == <<decIn, decOut>>
svars == <<svcType, wavFile, reqs>>
evars == <<encIn, encOut>>

vars == <<cvars, dvars, svars, evars>>

\* ---------------------------------------------------------------- bounds
MaxFrames == 3      \* device callbacks per run
MaxSessions == 2    \* startRecording invocations per run
FrameLen == 2       \* samples per device callback (4096 in the code, scaled)
MaxFields == 2      \* parts of a multipart body
MaxBytes == 2       \* payload bytes of a multipart body, all parts together
MaxRequests == 2    \* requests the server handles in a run
MaxSamples == 3     \* samples in a buffer given to renderWavFile
QuantLen == 2       \* samples in a buffer whose quantization is examined
MaxSilenceFrames == 6  \* stereo sample periods of a silent capture

\* ---------------------------------------------------------------- helpers
RECURSIVE Flatten(_)
Flatten(ss) == IF ss = <<>> THEN <<>> ELSE Head(ss) \o Flatten(Tail(ss))

NoDev == [stream |-> FALSE, audioContext |-> FALSE, streamSource |-> FALSE,
          analyser |-> FALSE, processor |-> FALSE]
AllDev == [stream |-> TRUE, audioContext |-> TRUE, streamSource |-> TRUE,
           analyser |-> TRUE, processor |-> TRUE]

NoOp == [op |-> "none", had |-> FALSE, pending |-> 0, calls |-> 0, drains |-> 0, emits |-> 0]

\* ---------------------------------------------------------------- bytes and text
\* A byte is a one-character string; "0xFF" stands for a byte that is no text.
CRLF == <<"\r", "\n">>
DashDash == <<"-", "-">>

\* Buffer.indexOf(pat, from): the first 0-based offset >= from at which pat occurs, -1 if none.
IndexOf(buf, pat, from) ==
  LET start == IF from < 0 THEN 0 ELSE from
      hits == {i \in start..(Len(buf) - Len(pat)) :
                 \A k \in 1..Len(pat) : buf[i + k] = pat[k]}
  IN  IF hits = {} THEN -1 ELSE CHOOSE i \in hits : \A j \in hits : i <= j

\* Buffer.slice(start, end) / String.slice: offsets clamped to the length,
\* negative offsets counted from the end, empty when end <= start.
Slice(buf, start, end) ==
  LET n  == Len(buf)
      s0 == IF start < 0 THEN (IF n + start < 0 THEN 0 ELSE n + start)
            ELSE (IF start > n THEN n ELSE start)
      e0 == IF end < 0 THEN (IF n + end < 0 THEN 0 ELSE n + end)
            ELSE (IF end > n THEN n ELSE end)
  IN  IF e0 <= s0 THEN <<>> ELSE SubSeq(buf, s0 + 1, e0)

\* Buffer.toString(): text bytes decode to themselves, others to U+FFFD.
BufferToString(buf) == [i \in 1..Len(buf) |-> IF buf[i] = "0xFF" THEN "U+FFFD" ELSE buf[i]]

IsSpace(c) == c \in {" ", "\t", "\r", "\n"}

\* String.trim()
RECURSIVE TrimLeft(_)
TrimLeft(str) ==
  IF str # <<>> /\ IsSpace(Head(str)) THEN TrimLeft(Tail(str)) ELSE str
RECURSIVE TrimRight(_)
TrimRight(str) ==
  IF str # <<>> /\ IsSpace(str[Len(str)])
    THEN TrimRight(SubSeq(str, 1, Len(str) - 1)) ELSE str
Trim(str) == TrimRight(TrimLeft(str))

\* String.toLowerCase() over the letters header names are written with.
LowerChar(c) ==
  CASE c = "C" -> "c" [] c = "D" -> "d" [] c = "T" -> "t" [] c = "N" -> "n"
    [] c = "A" -> "a" [] c = "X" -> "x" [] OTHER -> c
ToLowerCase(str) == [i \in 1..Len(str) |-> LowerChar(str[i])]

\* String.split('\r\n')
RECURSIVE SplitCRLF(_)
SplitCRLF(str) ==
  LET i == IndexOf(str, CRLF, 0)
  IN  IF i = -1 THEN <<str>>
      ELSE <<Slice(str, 0, i)>> \o SplitCRLF(Slice(str, i + 2, Len(str)))

\* The headers map built by the forEach over the header lines: a line without a
\* colon is ignored, a repeated name keeps its last value.
RECURSIVE ParseHeaders(_, _)
ParseHeaders(lines, headers) ==
  IF lines = <<>> THEN headers
  ELSE LET line == Head(lines)
           colonIndex == IndexOf(line, <<":">>, 0)
       IN  IF colonIndex = -1 THEN ParseHeaders(Tail(lines), headers)
           ELSE LET name == ToLowerCase(Trim(Slice(line, 0, colonIndex)))
                    value == Trim(Slice(line, colonIndex + 1, Len(line)))
                IN  ParseHeaders(Tail(lines),
                      [h \in DOMAIN headers \cup {name} |->
                         IF h = name THEN value ELSE headers[h]])

ContentDispositionKey ==
  <<"c","o","n","t","e","n","t","-","d","i","s","p","o","s","i","t","i","o","n">>
NameEqQuote == <<"n","a","m","e","=","\"">>

\* /name="([^"]+)"/.exec(value): the capture of the leftmost match, or <<>> when
\* nothing matches (a capture is never empty).
NameMatch(value) ==
  LET ok(i) == /\ \A k \in 1..6 : value[i + k] = NameEqQuote[k]
               /\ i + 7 <= Len(value)
               /\ value[i + 7] # "\""
               /\ \E j \in (i + 8)..Len(value) : value[j] = "\""
      hits == {i \in 0..(Len(value) - 6) : ok(i)}
  IN  IF hits = {} THEN <<>>
      ELSE LET i == CHOOSE x \in hits : \A y \in hits : x <= y
               j == CHOOSE x \in (i + 8)..Len(value) :
                      value[x] = "\"" /\ \A y \in (i + 8)..(x - 1) : value[y] # "\""
           IN  SubSeq(value, i + 7, j - 1)

\* A set that keeps the value a name already has.
SetFieldKeepFirst(formData, fieldName, fieldValue) ==
  [n \in DOMAIN formData \cup {fieldName} |->
     IF n \in DOMAIN formData THEN formData[n] ELSE fieldValue]

\* formData.set(fieldName, fieldValue)
SetField(formData, fieldName, fieldValue) ==
  [n \in DOMAIN formData \cup {fieldName} |->
     IF n = fieldName THEN fieldValue ELSE formData[n]]

\* A store that keeps the CRLF before the delimiter in the value.
StoreFieldKeepCRLF(buffer, formData, fieldName, position, nextBoundaryPosition) ==
  SetField(formData, fieldName, Slice(buffer, position, nextBoundaryPosition))

\* Lines 128-130: the value is the bytes up to two before the next delimiter.
StoreField(buffer, formData, fieldName, position, nextBoundaryPosition) ==
  SetField(formData, fieldName, Slice(buffer, position, nextBoundaryPosition - 2))

\* An end check that never recognises the terminal delimiter.
IsEndBoundaryNever(buffer, endBoundaryBuffer, position, boundaryLength) == FALSE

\* Line 82: the delimiter just passed is followed by "--".
IsEndBoundary(buffer, endBoundaryBuffer, position, boundaryLength) ==
  IndexOf(buffer, endBoundaryBuffer, position - boundaryLength) = position - boundaryLength

\* An iteration that, when it skips a part, goes back to that part's delimiter.
ScanIterationRescan(buffer, boundaryBuffer, position, formData) ==
  LET boundaryPosition == IndexOf(buffer, boundaryBuffer, position)
      endBoundaryBuffer == boundaryBuffer \o DashDash
      afterBoundary == boundaryPosition + Len(boundaryBuffer)
      headerStart == afterBoundary + 2
      headerEnd == IndexOf(buffer, CRLF \o CRLF, headerStart)
      headers == ParseHeaders(SplitCRLF(BufferToString(Slice(buffer, headerStart, headerEnd))),
                              <<>>)
      contentDisposition ==
        IF ContentDispositionKey \in DOMAIN headers
          THEN headers[ContentDispositionKey] ELSE <<>>
      nameMatch == NameMatch(contentDisposition)
      bodyStart == headerEnd + 4
      nextBoundaryPosition == IndexOf(buffer, boundaryBuffer, bodyStart)
      Leave(p) == [done |-> TRUE, position |-> p, partStart |-> boundaryPosition,
                   formData |-> formData]
      Continue(p, fd) == [done |-> FALSE, position |-> p, partStart |-> boundaryPosition,
                          formData |-> fd]
  IN  IF boundaryPosition = -1 THEN Leave(position)
      ELSE IF IsEndBoundary(buffer, endBoundaryBuffer, afterBoundary, Len(boundaryBuffer))
             THEN Leave(afterBoundary)
      ELSE IF headerEnd = -1 THEN Leave(headerStart)
      ELSE IF contentDisposition = <<>> THEN Continue(boundaryPosition, formData)
      ELSE IF nameMatch = <<>> THEN Continue(boundaryPosition, formData)
      ELSE IF nextBoundaryPosition = -1 THEN Leave(bodyStart)
      ELSE Continue(nextBoundaryPosition,
                    StoreField(buffer, formData, NameMatch(contentDisposition),
                               bodyStart, nextBoundaryPosition))

\* An iteration that stores the rest of the buffer as the field when no further
\* delimiter follows the payload.
ScanIterationStoreTail(buffer, boundaryBuffer, position, formData) ==
  LET boundaryPosition == IndexOf(buffer, boundaryBuffer, position)
      endBoundaryBuffer == boundaryBuffer \o DashDash
      afterBoundary == boundaryPosition + Len(boundaryBuffer)
      headerStart == afterBoundary + 2
      headerEnd == IndexOf(buffer, CRLF \o CRLF, headerStart)
      headers == ParseHeaders(SplitCRLF(BufferToString(Slice(buffer, headerStart, headerEnd))),
                              <<>>)
      contentDisposition ==
        IF ContentDispositionKey \in DOMAIN headers
          THEN headers[ContentDispositionKey] ELSE <<>>
      nameMatch == NameMatch(contentDisposition)
      bodyStart == headerEnd + 4
      nextBoundaryPosition == IndexOf(buffer, boundaryBuffer, bodyStart)
      Leave(p) == [done |-> TRUE, position |-> p, partStart |-> boundaryPosition,
                   formData |-> formData]
      Continue(p, fd) == [done |-> FALSE, position |-> p, partStart |-> boundaryPosition,
                          formData |-> fd]
  IN  IF boundaryPosition = -1 THEN Leave(position)
      ELSE IF IsEndBoundary(buffer, endBoundaryBuffer, afterBoundary, Len(boundaryBuffer))
             THEN Leave(afterBoundary)
      ELSE IF headerEnd = -1 THEN Leave(headerStart)
      ELSE IF contentDisposition = <<>> THEN Continue(bodyStart, formData)
      ELSE IF nameMatch = <<>> THEN Continue(bodyStart, formData)
      ELSE IF nextBoundaryPosition = -1
             THEN [done |-> TRUE, position |-> bodyStart, partStart |-> boundaryPosition,
                   formData |-> SetField(formData, NameMatch(contentDisposition),
                                         Slice(buffer, bodyStart, Len(buffer)))]
      ELSE Continue(nextBoundaryPosition,
                    StoreField(buffer, formData, NameMatch(contentDisposition),
                               bodyStart, nextBoundaryPosition))

\* Lines 73-133: one iteration of the while loop of parseMultipartFormData from
\* scan offset position: whether it left the loop (break), the offset it ended
\* with, the offset of the delimiter it found and the map.
ScanIteration(buffer, boundaryBuffer, position, formData) ==
  LET boundaryPosition == IndexOf(buffer, boundaryBuffer, position)
      endBoundaryBuffer == boundaryBuffer \o DashDash
      afterBoundary == boundaryPosition + Len(boundaryBuffer)
      headerStart == afterBoundary + 2
      headerEnd == IndexOf(buffer, CRLF \o CRLF, headerStart)
      headers == ParseHeaders(SplitCRLF(BufferToString(Slice(buffer, headerStart, headerEnd))),
                              <<>>)
      contentDisposition ==
        IF ContentDispositionKey \in DOMAIN headers
          THEN headers[ContentDispositionKey] ELSE <<>>
      nameMatch == NameMatch(contentDisposition)
      bodyStart == headerEnd + 4
      nextBoundaryPosition == IndexOf(buffer, boundaryBuffer, bodyStart)
      Leave(p) == [done |-> TRUE, position |-> p, partStart |-> boundaryPosition,
                   formData |-> formData]
      Continue(p, fd) == [done |-> FALSE, position |-> p, partStart |-> boundaryPosition,
                          formData |-> fd]
  IN  IF boundaryPosition = -1 THEN Leave(position)
      ELSE IF IsEndBoundary(buffer, endBoundaryBuffer, afterBoundary, Len(boundaryBuffer))
             THEN Leave(afterBoundary)
      ELSE IF headerEnd = -1 THEN Leave(headerStart)
      ELSE IF contentDisposition = <<>> THEN Continue(bodyStart, formData)
      ELSE IF nameMatch = <<>> THEN Continue(bodyStart, formData)
      ELSE IF nextBoundaryPosition = -1 THEN Leave(bodyStart)
      ELSE Continue(nextBoundaryPosition,
                    StoreField(buffer, formData, NameMatch(contentDisposition),
                               bodyStart, nextBoundaryPosition))

\* The while loop of parseMultipartFormData from scan offset position.
RECURSIVE ScanParts(_, _, _, _)
ScanParts(buffer, boundaryBuffer, position, formData) ==
  IF ~(position < Len(buffer)) THEN formData
  ELSE LET iteration == ScanIteration(buffer, boundaryBuffer, position, formData)
       IN  IF iteration.done THEN iteration.formData
           ELSE ScanParts(buffer, boundaryBuffer, iteration.position, iteration.formData)

\* parseMultipartFormData on the whole body: the promise resolves with the map
\* (nothing in the 'end' handler throws, so it never rejects on a received body).
ParseMultipartFormData(buffer, boundary) ==
  [settled |-> "resolved",
   formData |-> ScanParts(buffer, DashDash \o boundary, 0, <<>>)]

\* ---------------------------------------------------------------- request bodies
ContentDispositionLine(name, isFile) ==
  <<"C","o","n","t","e","n","t","-","D","i","s","p","o","s","i","t","i","o","n",":"," ",
    "f","o","r","m","-","d","a","t","a",";"," ">> \o NameEqQuote \o name \o <<"\"">>
  \o (IF isFile
        THEN <<";"," ","f","i","l","e","n","a","m","e","=","\"","r",".","w","a","v","\"">>
             \o CRLF \o <<"C","o","n","t","e","n","t","-","T","y","p","e",":"," ",
                          "a","u","d","i","o","/","w","a","v">>
        ELSE <<>>)

\* One part as FormData writes it.
PartBytes(boundary, field) ==
  DashDash \o boundary \o CRLF \o ContentDispositionLine(field.name, field.isFile)
  \o CRLF \o CRLF \o field.value \o CRLF

RECURSIVE PartsBytes(_, _)
PartsBytes(boundary, fields) ==
  IF fields = <<>> THEN <<>>
  ELSE PartBytes(boundary, Head(fields)) \o PartsBytes(boundary, Tail(fields))

\* The body FormData builds from a list of fields (sendAudioForTranscription).
BuildBody(boundary, fields) ==
  PartsBytes(boundary, fields) \o DashDash \o boundary \o DashDash \o CRLF

\* A body cut inside the header block of a last part: no blank line follows.
TruncatedBody(boundary, fields) ==
  PartsBytes(boundary, fields) \o DashDash \o boundary \o CRLF
  \o ContentDispositionLine(<<"x">>, FALSE)

\* The header block of a part of each kind: with a name parameter, with a
\* content-disposition that has no parameter or only a filename, with a
\* content-type only, and with no header line at all.
PartKinds == {"named", "noName", "filenameOnly", "noDisposition", "bare"}
DispositionPrefix ==
  <<"C","o","n","t","e","n","t","-","D","i","s","p","o","s","i","t","i","o","n",":"," ",
    "f","o","r","m","-","d","a","t","a">>
FilenameParam == <<";"," ","f","i","l","e","n","a","m","e","=","\"","r",".","w","a","v","\"">>
HeaderBlock(part) ==
  CASE part.kind = "named" -> ContentDispositionLine(part.name, FALSE)
    [] part.kind = "noName" -> DispositionPrefix
    [] part.kind = "filenameOnly" -> DispositionPrefix \o FilenameParam
    [] part.kind = "noDisposition" ->
         <<"C","o","n","t","e","n","t","-","T","y","p","e",":"," ",
           "a","u","d","i","o","/","w","a","v">>
    [] part.kind = "bare" -> <<>>

\* A part of any kind between its delimiter and the CRLF before the next one.
AnyPartBytes(boundary, part) ==
  DashDash \o boundary \o CRLF \o HeaderBlock(part) \o CRLF \o CRLF \o part.value \o CRLF

RECURSIVE AnyPartsBytes(_, _)
AnyPartsBytes(boundary, parts) ==
  IF parts = <<>> THEN <<>>
  ELSE AnyPartBytes(boundary, Head(parts)) \o AnyPartsBytes(boundary, Tail(parts))

\* A body of parts of any kind, closed by the terminal delimiter and followed
\* by the epilogue bytes.
BuildLooseBody(boundary, parts, epilogue) ==
  AnyPartsBytes(boundary, parts) \o DashDash \o boundary \o DashDash \o CRLF \o epilogue

\* ---------------------------------------------------------------- WAV encoder
\* A sample is an exact fraction <<n, d>> with d > 0 (the rounding of float
\* arithmetic is not modelled).
RECURSIVE Gcd(_, _)
Gcd(a, b) == IF b = 0 THEN a ELSE Gcd(b, a % b)
Abs(x) == IF x < 0 THEN -x ELSE x
Norm(n, d) == LET g == Gcd(Abs(n), d) IN <<n \div g, d \div g>>
RAdd(x, y) == Norm(x[1] * y[2] + y[1] * x[2], x[2] * y[2])
RMul(x, y) == Norm(x[1] * y[1], x[2] * y[2])
RLess(x, y) == x[1] * y[2] < y[1] * x[2]
RMax(x, y) == IF RLess(x, y) THEN y ELSE x
RMin(x, y) == IF RLess(x, y) THEN x ELSE y

\* a || b on numbers: 0 and undefined (written 0) are falsy.
OrElse(a, b) == IF a # 0 THEN a ELSE b

\* A downmix that averages pairs of samples whatever the channel count is.
StereoToMonoPairs(buffer, numChannels) ==
  [i \in 1..(Len(buffer) \div 2) |->
     RMul(RAdd(buffer[2 * i - 1], buffer[2 * i]), <<1, 2>>)]

\* A downmix that keeps the first channel of every interleaved group.
StereoToMonoFirstChannel(buffer, numChannels) ==
  IF numChannels = 1 THEN buffer
  ELSE [i \in 1..(Len(buffer) \div numChannels) |-> buffer[(i - 1) * numChannels + 1]]

\* Line 410-411: the console.warn of stereoToMono.
StereoToMonoWarns(buffer, numChannels) ==
  numChannels # 1 /\ Len(buffer) % numChannels # 0

\* stereoToMono
StereoToMono(buffer, numChannels) ==
  IF numChannels = 1 THEN buffer
  ELSE IF Len(buffer) % numChannels # 0
    THEN Slice(buffer, 0, Len(buffer) \div numChannels)
  ELSE LET monoLength == Len(buffer) \div numChannels
           sum[c \in 0..numChannels] ==
             [i \in 1..monoLength |->
                IF c = 0 THEN <<0, 1>>
                ELSE RAdd(sum[c - 1][i], buffer[(i - 1) * numChannels + c])]
       IN  [i \in 1..monoLength |-> RMul(sum[numChannels][i], <<1, numChannels>>)]

\* A resampler that allocates one element less than the length it computes.
DownsampleAudioShort(buffer, originalSampleRate, targetSampleRate) ==
  LET outputLength == (Len(buffer) * targetSampleRate) \div originalSampleRate
  IN  [i1 \in 1..(outputLength - 1) |->
         buffer[((i1 - 1) * originalSampleRate) \div targetSampleRate + 1]]

\* A resampler that leaves the buffer alone when the target rate is not lower.
DownsampleAudioOnlyDown(buffer, originalSampleRate, targetSampleRate) ==
  IF originalSampleRate <= targetSampleRate THEN buffer
  ELSE [i1 \in 1..((Len(buffer) * targetSampleRate) \div originalSampleRate) |->
          buffer[((i1 - 1) * originalSampleRate) \div targetSampleRate + 1]]

\* downsampleAudio: linear interpolation at position i * original / target.
DownsampleAudio(buffer, originalSampleRate, targetSampleRate) ==
  IF originalSampleRate = targetSampleRate THEN buffer
  ELSE LET outputLength == (Len(buffer) * targetSampleRate) \div originalSampleRate
       IN  [i1 \in 1..outputLength |->
              LET i == i1 - 1
                  indexInt == (i * originalSampleRate) \div targetSampleRate
                  fraction == Norm(i * originalSampleRate - indexInt * targetSampleRate,
                                   targetSampleRate)
              IN  IF indexInt >= Len(buffer) - 1 THEN buffer[Len(buffer)]
                  ELSE RAdd(RMul(RAdd(<<1, 1>>, <<-fraction[1], fraction[2]>>),
                                 buffer[indexInt + 1]),
                            RMul(fraction, buffer[indexInt + 2]))]

\* Math.round(sample * 32767) after clamping the sample to [-1, 1], stored in an
\* Int16Array element (which wraps modulo 2^16).
ToInt16(v) == ((v + 32768) % 65536) - 32768
\* A quantization that scales negative samples by 32768.
QuantizeSampleAsymmetric(s) ==
  LET sample == RMax(<<-1, 1>>, RMin(<<1, 1>>, s))
      scale == IF sample[1] < 0 THEN 32768 ELSE 32767
  IN  ToInt16((2 * sample[1] * scale + sample[2]) \div (2 * sample[2]))

QuantizeSample(s) ==
  LET sample == RMax(<<-1, 1>>, RMin(<<1, 1>>, s))
  IN  ToInt16((2 * sample[1] * 32767 + sample[2]) \div (2 * sample[2]))

U16LE(d) == LET u == d % 65536 IN <<u % 256, u \div 256>>
\* setUint32(p, d, true); every d the model writes is below 2^31.
U32LE(d) ==
  <<d % 256, (d \div 256) % 256, (d \div 65536) % 256, (d \div 16777216) % 256>>

\* The bytes of an Int16Array / Float32Array element in memory (little-endian).
\* The four bytes of a non-zero float are kept symbolic.
Int16Bytes(v) == U16LE(v)
Float32Bytes(s) ==
  IF s[1] = 0 THEN <<0, 0, 0, 0>> ELSE [k \in 1..4 |-> [f32 |-> s, byte |-> k]]

\* The bytes of a whole Int16Array / Float32Array.
RECURSIVE Int16ArrayBytes(_)
Int16ArrayBytes(q) ==
  IF q = <<>> THEN <<>> ELSE Int16Bytes(Head(q)) \o Int16ArrayBytes(Tail(q))
RECURSIVE Float32ArrayBytes(_)
Float32ArrayBytes(q) ==
  IF q = <<>> THEN <<>> ELSE Float32Bytes(Head(q)) \o Float32ArrayBytes(Tail(q))

\* A header whose byte rate leaves the channel count out.
GetWavHeaderByteRatePerChannel(options, numFrames) ==
  LET numChannels == OrElse(options.numChannels, 2)
      sampleRate == OrElse(options.sampleRate, 44100)
      bytesPerSample == IF options.isFloat THEN 4 ELSE 2
      format == IF options.isFloat THEN 3 ELSE 1
      blockAlign == numChannels * bytesPerSample
      byteRate == sampleRate * bytesPerSample
      dataSize == numFrames * blockAlign
  IN  <<82, 73, 70, 70>> \o U32LE(dataSize + 36) \o <<87, 65, 86, 69>>
      \o <<102, 109, 116, 32>> \o U32LE(16) \o U16LE(format) \o U16LE(numChannels)
      \o U32LE(sampleRate) \o U32LE(byteRate) \o U16LE(blockAlign)
      \o U16LE(bytesPerSample * 8) \o <<100, 97, 116, 97>> \o U32LE(dataSize)

\* getWavHeader(options, numFrames)
GetWavHeader(options, numFrames) ==
  LET numChannels == OrElse(options.numChannels, 2)
      sampleRate == OrElse(options.sampleRate, 44100)
      bytesPerSample == IF options.isFloat THEN 4 ELSE 2
      format == IF options.isFloat THEN 3 ELSE 1
      blockAlign == numChannels * bytesPerSample
      byteRate == sampleRate * blockAlign
      dataSize == numFrames * blockAlign
  IN  <<82, 73, 70, 70>> \o U32LE(dataSize + 36) \o <<87, 65, 86, 69>>
      \o <<102, 109, 116, 32>> \o U32LE(16) \o U16LE(format) \o U16LE(numChannels)
      \o U32LE(sampleRate) \o U32LE(byteRate) \o U16LE(blockAlign)
      \o U16LE(bytesPerSample * 8) \o <<100, 97, 116, 97>> \o U32LE(dataSize)

\* A profile resolution whose Whisper override leaves the sample format alone.
ResolveProfileKeepFormat(options) ==
  [originalSampleRate |-> OrElse(OrElse(options.originalSampleRate, options.sampleRate), 44100),
   originalNumChannels |-> OrElse(OrElse(options.originalNumChannels, options.numChannels), 2),
   targetSampleRate |-> IF options.optimizeForWhisper THEN 16000
                        ELSE OrElse(options.sampleRate, 44100),
   targetNumChannels |-> IF options.optimizeForWhisper THEN 1
                         ELSE OrElse(options.numChannels, 2),
   useFloat |-> options.isFloat]

\* Lines 236-248: the defaults and the Whisper override.
ResolveProfile(options) ==
  [originalSampleRate |-> OrElse(OrElse(options.originalSampleRate, options.sampleRate), 44100),
   originalNumChannels |-> OrElse(OrElse(options.originalNumChannels, options.numChannels), 2),
   targetSampleRate |-> IF options.optimizeForWhisper THEN 16000
                        ELSE OrElse(options.sampleRate, 44100),
   targetNumChannels |-> IF options.optimizeForWhisper THEN 1
                         ELSE OrElse(options.numChannels, 2),
   useFloat |-> IF options.optimizeForWhisper THEN FALSE ELSE options.isFloat]

\* A processing that resamples without mixing the channels down.
ProcessBufferKeepChannels(buffer, profile) ==
  IF profile.originalSampleRate # profile.targetSampleRate
    THEN DownsampleAudio(buffer, profile.originalSampleRate, profile.targetSampleRate)
    ELSE buffer

\* A processing that resamples the interleaved buffer before mixing it down.
ProcessBufferResampleFirst(buffer, profile) ==
  LET resampled == IF profile.originalSampleRate # profile.targetSampleRate
                     THEN DownsampleAudio(buffer, profile.originalSampleRate,
                                          profile.targetSampleRate)
                     ELSE buffer
  IN  IF profile.originalNumChannels > 1 /\ profile.targetNumChannels = 1
        THEN StereoToMono(resampled, profile.originalNumChannels) ELSE resampled

\* Lines 250-267: mono conversion, then resampling.
ProcessBuffer(buffer, profile) ==
  LET mono == IF profile.originalNumChannels > 1 /\ profile.targetNumChannels = 1
                THEN StereoToMono(buffer, profile.originalNumChannels) ELSE buffer
  IN  IF profile.originalSampleRate # profile.targetSampleRate
        THEN DownsampleAudio(mono, profile.originalSampleRate, profile.targetSampleRate)
        ELSE mono

\* renderWavFile
RenderWavFile(buffer, options) ==
  LET profile == ResolveProfile(options)
      processedBuffer == ProcessBuffer(buffer, profile)
      audioBytes == IF profile.useFloat
                      THEN Float32ArrayBytes(processedBuffer)
                      ELSE Int16ArrayBytes(
                             [i \in 1..Len(processedBuffer) |->
                                QuantizeSample(processedBuffer[i])])
      numFrames == Len(processedBuffer)
      headerBytes == GetWavHeader([isFloat |-> profile.useFloat,
                                   numChannels |-> profile.targetNumChannels,
                                   sampleRate |-> profile.targetSampleRate], numFrames)
  IN  headerBytes \o audioBytes

\* DataView reads of a header field at a byte offset (little-endian).
ReadU16(bytes, off) == bytes[off + 1] + 256 * bytes[off + 2]
ReadI16(bytes, off) ==
  IF ReadU16(bytes, off) >= 32768 THEN ReadU16(bytes, off) - 65536 ELSE ReadU16(bytes, off)
ReadU32(bytes, off) ==
  bytes[off + 1] + 256 * bytes[off + 2] + 65536 * bytes[off + 3] + 16777216 * bytes[off + 4]

\* ---------------------------------------------------------------- AudioRecorder

\* A processAudioChunk that forgets to clear the buffer after concatenating.
ProcessAudioChunkNoClear(chunks) ==
  IF Len(chunks) = 0
    THEN [audioChunks |-> chunks, drained |-> <<>>, blobs |-> <<>>]
    ELSE [audioChunks |-> chunks, drained |-> <<Flatten(chunks)>>,
          blobs |-> <<Flatten(chunks)>>]

\* A processAudioChunk without the early return on an empty buffer.
ProcessAudioChunkNoGuard(chunks) ==
  [audioChunks |-> <<>>, drained |-> <<Flatten(chunks)>>, blobs |-> <<Flatten(chunks)>>]

\* processAudioChunk: nothing on an empty buffer; otherwise concatenate the
\* frames, clear the buffer, render and hand one blob to onDataAvailable.
ProcessAudioChunk(chunks) ==
  IF Len(chunks) = 0
    THEN [audioChunks |-> chunks, drained |-> <<>>, blobs |-> <<>>]
    ELSE LET combinedChunks == Flatten(chunks)
         IN  [audioChunks |-> <<>>, drained |-> <<combinedChunks>>,
              blobs |-> <<combinedChunks>>]

\* A cleanup that forgets to stop and null the stream.
ReleaseResourcesKeepStream(d) == [NoDev EXCEPT !.stream = d.stream]

\* The cleanup of stopRecording: every held resource is released and nulled.
ReleaseResources(d) == NoDev

\* The failures startRecording can meet, by the step that raises them.
\*   Unsupported        : navigator.mediaDevices.getUserMedia is missing (line 31)
\*   NotAllowedError ...: DOMException names getUserMedia rejects with (line 36)
\*   AbortError         : any other DOMException name getUserMedia rejects with
\*   ContextFailed      : the AudioContext constructor throws (line 52)
\*   SourceFailed       : createMediaStreamSource throws (line 62)
\*   ProcessorFailed    : createAnalyser/createScriptProcessor/connect throws (70-77)
MediaRejections == {"NotAllowedError", "NotFoundError", "NotReadableError", "AbortError"}
SetupFailures == {"ContextFailed", "SourceFailed", "ProcessorFailed"}

\* The resources the recorder's fields hold when the step fails.
HeldAtFailure(f) ==
  CASE f = "ContextFailed"   -> [NoDev EXCEPT !.stream = TRUE]
    [] f = "SourceFailed"    -> [NoDev EXCEPT !.stream = TRUE, !.audioContext = TRUE]
    [] f = "ProcessorFailed" -> [AllDev EXCEPT !.processor = FALSE]
    [] OTHER                 -> NoDev

\* The catch block of startRecording: the message of the error it throws.
RecorderThrows(f) ==
  CASE f = "Unsupported"      -> "getUserMedia is not supported in this browser"
    [] f = "NotAllowedError"  -> "Microphone access was denied by the user or system"
    [] f = "NotFoundError"    -> "No microphone was found on your device"
    [] f = "NotReadableError" -> "Microphone is already in use by another application"
    [] OTHER                  -> "unclassified browser error"

\* The class of device error a thrown message stands for.
ErrorClass(msg) ==
  CASE msg = "Microphone access was denied by the user or system"  -> "PermissionDenied"
    [] msg = "No microphone was found on your device"              -> "DeviceNotFound"
    [] msg = "Microphone is already in use by another application" -> "DeviceBusy"
    [] msg = "getUserMedia is not supported in this browser"       -> "Unsupported"
    [] OTHER                                                       -> "Unclassified"

\* ---------------------------------------------------------------- App

\* error.message.includes(needle) over the messages above.
Includes(msg, needle) ==
  \/ needle = "denied" /\ msg = "Microphone access was denied by the user or system"
  \/ needle = "getUserMedia is not supported"
       /\ msg = "getUserMedia is not supported in this browser"

\* The catch block of App.startRecording: the errorMessage shown to the user.
AppErrorMessage(msg) ==
  IF Includes(msg, "denied") \/ Includes(msg, "NotAllowedError")
    THEN "Microphone access was denied"
  ELSE IF Includes(msg, "NotFoundError") THEN "No microphone detected"
  ELSE IF Includes(msg, "NotReadableError") THEN "Microphone is already in use"
  ELSE IF Includes(msg, "getUserMedia is not supported")
    THEN "Your browser does not support audio recording"
  ELSE "Could not access microphone"

\* The callback App gives the recorder: handleAudioData up to its first await.
\* It sets the status and starts one send per blob; it does not wait for it.
OnDataAvailable(blobs, firstChunk, out, status) ==
  [outstanding |-> out \cup {firstChunk + i : i \in 1..Len(blobs)},
   statusText |-> IF Len(blobs) > 0 THEN "Processing audio..." ELSE status]

ClientInit ==
  /\ isRecording = FALSE
  /\ intervalId = "null"
  /\ dev = NoDev
  /\ audioChunks = <<>>
  /\ startPc = "idle"
  /\ timers = 0
  /\ nextSample = 1
  /\ appIsRecording = FALSE
  /\ startDisabled = FALSE
  /\ stopDisabled = TRUE
  /\ statusText = "Ready to record"
  /\ transcriptionHistory = <<>>
  /\ outstanding = {}
  /\ sessions = 0
  /\ appended = <<>>
  /\ drained = <<>>
  /\ emitted = <<>>
  /\ surfaced = "none"
  /\ appError = "none"
  /\ lastOp = NoOp
  /\ pendingStarts = 0
  /\ liveStreams = 0
  /\ liveProcessors = 0

\* App.startRecording after a failure of audioRecorder.startRecording.
StartFailed(f, held) ==
  /\ dev' = held
  /\ surfaced' = RecorderThrows(f)
  /\ appError' = AppErrorMessage(RecorderThrows(f))
  /\ statusText' = "Error: start failed"
  /\ startDisabled' = FALSE
  /\ stopDisabled' = TRUE
  /\ startPc' = "idle"
  /\ UNCHANGED <<isRecording, intervalId, audioChunks, timers, nextSample, appIsRecording,
                 transcriptionHistory, outstanding, appended, drained, emitted>>

\* A click on the start button: App.startRecording and AudioRecorder.startRecording
\* up to "await getUserMedia", or to the throw when getUserMedia is missing.
StartClick ==
  /\ ~startDisabled
  /\ sessions < MaxSessions
  /\ ~appIsRecording
  /\ ~isRecording
  /\ startPc = "idle"
  /\ sessions' = sessions + 1
  /\ lastOp' = [NoOp EXCEPT !.op = "start"]
  /\ \/ /\ startPc' = "awaitMedia"
        /\ startDisabled' = TRUE
        /\ statusText' = "Requesting microphone access..."
        /\ surfaced' = "none"
        /\ appError' = "none"
        /\ UNCHANGED <<isRecording, intervalId, dev, audioChunks, timers, nextSample,
                       appIsRecording, stopDisabled, transcriptionHistory, outstanding,
                       appended, drained, emitted>>
     \/ StartFailed("Unsupported", dev)

\* getUserMedia rejects, or resolves and a later setup step throws.
StartFails ==
  /\ startPc = "awaitMedia"
  /\ lastOp' = [NoOp EXCEPT !.op = "startFailed"]
  /\ UNCHANGED sessions
  /\ \/ \E f \in MediaRejections : StartFailed(f, dev)
     \/ \E f \in SetupFailures : StartFailed(f, HeldAtFailure(f))

\* getUserMedia resolves and the rest of startRecording runs, then App's continuation.
StartSucceeds ==
  /\ startPc = "awaitMedia"
  /\ startPc' = "idle"
  /\ dev' = AllDev
  /\ audioChunks' = <<>>
  /\ appended' = <<>>
  /\ drained' = <<>>
  /\ isRecording' = TRUE
  /\ intervalId' = "set"
  /\ timers' = timers + 1
  /\ stopDisabled' = FALSE
  /\ statusText' = "Recording..."
  /\ appIsRecording' = TRUE
  /\ lastOp' = [NoOp EXCEPT !.op = "started", !.had = Len(audioChunks) > 0]
  /\ UNCHANGED <<nextSample, startDisabled, transcriptionHistory, outstanding, sessions,
                 emitted, surfaced, appError>>

\* processor.onaudioprocess: copy the callback's samples and push the copy.
AudioProcess ==
  /\ dev.processor
  /\ nextSample <= MaxFrames * FrameLen
  /\ LET channelDataCopy == [i \in 1..FrameLen |-> nextSample + i - 1]
     IN  /\ audioChunks' = Append(audioChunks, channelDataCopy)
         /\ appended' = Append(appended, channelDataCopy)
  /\ nextSample' = nextSample + FrameLen
  /\ lastOp' = [NoOp EXCEPT !.op = "audio", !.pending = Cardinality(outstanding)]
  /\ UNCHANGED <<isRecording, intervalId, dev, startPc, timers, appIsRecording,
                 startDisabled, stopDisabled, statusText, transcriptionHistory,
                 outstanding, sessions, drained, emitted, surfaced, appError>>

\* One call of processAudioChunk from handler op, with the callback it makes.
FlushStep(op) ==
  LET r == ProcessAudioChunk(audioChunks)
      a == OnDataAvailable(r.blobs, Len(emitted), outstanding, statusText)
  IN  /\ audioChunks' = r.audioChunks
      /\ drained' = drained \o r.drained
      /\ emitted' = emitted \o r.blobs
      /\ outstanding' = a.outstanding
      /\ statusText' = a.statusText
      /\ lastOp' = [op |-> op, had |-> Len(audioChunks) > 0,
                    pending |-> Cardinality(outstanding), calls |-> 1,
                    drains |-> Len(r.drained), emits |-> Len(r.blobs)]

\* A variant of the interval callback that waits for the previous send.
TimerFireAfterSend ==
  /\ timers > 0
  /\ outstanding = {}
  /\ FlushStep("timer")
  /\ UNCHANGED <<isRecording, intervalId, dev, startPc, timers, nextSample,
                 appIsRecording, startDisabled, stopDisabled, transcriptionHistory,
                 sessions, appended, surfaced, appError>>

\* The setInterval callback: one processAudioChunk.
TimerFire ==
  /\ timers > 0
  /\ FlushStep("timer")
  /\ UNCHANGED <<isRecording, intervalId, dev, startPc, timers, nextSample,
                 appIsRecording, startDisabled, stopDisabled, transcriptionHistory,
                 sessions, appended, surfaced, appError>>

\* A click on the stop button: App.stopRecording, which runs AudioRecorder.stopRecording
\* (clear the interval, one processAudioChunk, release everything) when recording.
StopClick ==
  /\ appIsRecording
  /\ isRecording
  /\ LET r == ProcessAudioChunk(audioChunks)
         a == OnDataAvailable(r.blobs, Len(emitted), outstanding, statusText)
     IN  /\ audioChunks' = r.audioChunks
         /\ drained' = drained \o r.drained
         /\ emitted' = emitted \o r.blobs
         /\ outstanding' = a.outstanding
         /\ lastOp' = [op |-> "stop", had |-> Len(audioChunks) > 0,
                       pending |-> Cardinality(outstanding), calls |-> 1,
                       drains |-> Len(r.drained), emits |-> Len(r.blobs)]
  /\ timers' = IF intervalId = "set" THEN timers - 1 ELSE timers
  /\ intervalId' = "null"
  /\ dev' = ReleaseResources(dev)
  /\ isRecording' = FALSE
  /\ appIsRecording' = FALSE
  /\ startDisabled' = FALSE
  /\ stopDisabled' = TRUE
  /\ statusText' = "Processing final audio..."
  /\ UNCHANGED <<startPc, nextSample, transcriptionHistory, sessions, appended,
                 surfaced, appError>>

\* A click on the stop button while App is not recording: App.stopRecording returns.
StopClickIdle ==
  /\ ~appIsRecording
  /\ lastOp' = [NoOp EXCEPT !.op = "stopIdle"]
  /\ UNCHANGED <<isRecording, intervalId, dev, audioChunks, startPc, timers, nextSample,
                 appIsRecording, startDisabled, stopDisabled, statusText,
                 transcriptionHistory, outstanding, sessions, appended, drained, emitted,
                 surfaced, appError>>

\* A send completes: the rest of handleAudioData.
SendCompletes ==
  /\ \E c \in outstanding, outcome \in {"text", "empty", "error"} :
       /\ outstanding' = outstanding \ {c}
       /\ transcriptionHistory' =
            IF outcome = "text" THEN Append(transcriptionHistory, c)
            ELSE transcriptionHistory
       /\ statusText' =
            IF outcome = "error" THEN "Error: send failed"
            ELSE IF appIsRecording THEN "Recording..." ELSE "Ready"
       /\ lastOp' = [NoOp EXCEPT !.op = "sendDone"]
  /\ UNCHANGED <<isRecording, intervalId, dev, audioChunks, startPc, timers, nextSample,
                 appIsRecording, startDisabled, stopDisabled, sessions, appended, drained,
                 emitted, surfaced, appError>>

\* ---------------------------------------------------------------- AudioRecorder API
\* The recorder driven through its public methods, startRecording being invoked
\* whenever its caller likes, also while an earlier invocation is suspended.

\* A startRecording without the guard on isRecording.
RecorderStartUnguarded ==
  /\ sessions < MaxSessions
  /\ sessions' = sessions + 1
  /\ pendingStarts' = pendingStarts + 1
  /\ lastOp' = [NoOp EXCEPT !.op = IF isRecording THEN "startIgnored" ELSE "start"]
  /\ UNCHANGED <<isRecording, intervalId, dev, audioChunks, startPc, timers, nextSample,
                 appIsRecording, startDisabled, stopDisabled, statusText,
                 transcriptionHistory, outstanding, appended, drained, emitted,
                 surfaced, appError, liveStreams, liveProcessors>>

\* startRecording up to "await getUserMedia": it returns at once when isRecording
\* is set (lines 22-25) and suspends otherwise (lines 36-45).
RecorderStart ==
  /\ sessions < MaxSessions
  /\ sessions' = sessions + 1
  /\ pendingStarts' = IF isRecording THEN pendingStarts ELSE pendingStarts + 1
  /\ lastOp' = [NoOp EXCEPT !.op = IF isRecording THEN "startIgnored" ELSE "start"]
  /\ UNCHANGED <<isRecording, intervalId, dev, audioChunks, startPc, timers, nextSample,
                 appIsRecording, startDisabled, stopDisabled, statusText,
                 transcriptionHistory, outstanding, appended, drained, emitted,
                 surfaced, appError, liveStreams, liveProcessors>>

\* getUserMedia resolves for one suspended invocation, which runs to its end
\* (lines 45-105): the fields are overwritten with a new stream, context, source,
\* analyser, processor and interval, whatever they held.
RecorderMediaGranted ==
  /\ pendingStarts > 0
  /\ pendingStarts' = pendingStarts - 1
  /\ liveStreams' = liveStreams + 1
  /\ liveProcessors' = liveProcessors + 1
  /\ dev' = AllDev
  /\ audioChunks' = <<>>
  /\ appended' = <<>>
  /\ drained' = <<>>
  /\ isRecording' = TRUE
  /\ intervalId' = "set"
  /\ timers' = timers + 1
  /\ lastOp' = [NoOp EXCEPT !.op = "started", !.had = Len(audioChunks) > 0]
  /\ UNCHANGED <<startPc, nextSample, appIsRecording, startDisabled, stopDisabled,
                 statusText, transcriptionHistory, outstanding, sessions, emitted,
                 surfaced, appError>>

\* getUserMedia rejects for one suspended invocation: the catch block rethrows.
RecorderMediaRejected ==
  /\ pendingStarts > 0
  /\ pendingStarts' = pendingStarts - 1
  /\ \E f \in MediaRejections : surfaced' = RecorderThrows(f)
  /\ lastOp' = [NoOp EXCEPT !.op = "startFailed"]
  /\ UNCHANGED <<isRecording, intervalId, dev, audioChunks, startPc, timers, nextSample,
                 appIsRecording, startDisabled, stopDisabled, statusText,
                 transcriptionHistory, outstanding, sessions, appended, drained, emitted,
                 appError, liveStreams, liveProcessors>>

\* onaudioprocess of any processor that is still connected: the copy is pushed
\* onto the recorder's audioChunks.
RecorderAudio ==
  /\ liveProcessors > 0
  /\ nextSample <= MaxFrames * FrameLen
  /\ LET channelDataCopy == [i \in 1..FrameLen |-> nextSample + i - 1]
     IN  /\ audioChunks' = Append(audioChunks, channelDataCopy)
         /\ appended' = Append(appended, channelDataCopy)
  /\ nextSample' = nextSample + FrameLen
  /\ lastOp' = [NoOp EXCEPT !.op = "audio", !.pending = Cardinality(outstanding)]
  /\ UNCHANGED <<isRecording, intervalId, dev, startPc, timers, appIsRecording,
                 startDisabled, stopDisabled, statusText, transcriptionHistory,
                 outstanding, sessions, drained, emitted, surfaced, appError, rvars>>

\* The callback of any interval that has not been cleared: one processAudioChunk.
RecorderTimer ==
  /\ timers > 0
  /\ FlushStep("timer")
  /\ UNCHANGED <<isRecording, intervalId, dev, startPc, timers, nextSample,
                 appIsRecording, startDisabled, stopDisabled, transcriptionHistory,
                 sessions, appended, surfaced, appError, rvars>>

\* stopRecording while recording (lines 128-172): the interval in intervalId is
\* cleared, one processAudioChunk runs, and the processor, stream and context the
\* fields refer to are released.
RecorderStop ==
  /\ isRecording
  /\ FlushStep("stop")
  /\ timers' = IF intervalId = "set" THEN timers - 1 ELSE timers
  /\ intervalId' = "null"
  /\ liveProcessors' = IF dev.processor THEN liveProcessors - 1 ELSE liveProcessors
  /\ liveStreams' = IF dev.stream THEN liveStreams - 1 ELSE liveStreams
  /\ dev' = ReleaseResources(dev)
  /\ isRecording' = FALSE
  /\ UNCHANGED <<startPc, nextSample, appIsRecording, startDisabled, stopDisabled,
                 transcriptionHistory, sessions, appended, surfaced, appError,
                 pendingStarts>>

\* stopRecording while not recording (lines 128-132): it returns at once.
RecorderStopIdle ==
  /\ ~isRecording
  /\ lastOp' = [NoOp EXCEPT !.op = "stopIgnored"]
  /\ UNCHANGED <<isRecording, intervalId, dev, audioChunks, startPc, timers, nextSample,
                 appIsRecording, startDisabled, stopDisabled, statusText,
                 transcriptionHistory, outstanding, sessions, appended, drained, emitted,
                 surfaced, appError, rvars>>

\* ---------------------------------------------------------------- decoder run
DecodeOff == decIn = <<>> /\ decOut = <<>>

Names == {<<"a">>, <<"B">>}
Boundaries == {<<"X">>, <<"-", "X">>}
PayloadBytes == {"-", "X", "\r", "\n", "0xFF"}

RECURSIVE SeqsUpTo(_, _)
SeqsUpTo(S, n) ==
  IF n = 0 THEN {<<>>}
  ELSE LET shorter == SeqsUpTo(S, n - 1)
       IN  shorter \cup {Append(q, x) : q \in {t \in shorter : Len(t) = n - 1}, x \in S}

Contains(buf, pat) == IndexOf(buf, pat, 0) # -1

\* The fields FormData carries: "a" is appended as a blob with a file name (as
\* sendAudioForTranscription does), "B" as a plain value.
IsFileField(name) == name = <<"a">>

\* Lists of k fields whose payloads hold at most budget bytes together and do
\* not contain the delimiter of boundary b.
RECURSIVE FieldSeqs(_, _, _)
FieldSeqs(k, budget, b) ==
  IF k = 0 THEN {<<>>}
  ELSE UNION {{<<[name |-> n, isFile |-> IsFileField(n), value |-> v]>> \o rest :
                 n \in Names, rest \in FieldSeqs(k - 1, budget - Len(v), b)} :
              v \in {p \in SeqsUpTo(PayloadBytes, budget) : ~Contains(p, DashDash \o b)}}

\* The bodies a decoder run is given for boundary b: b and a list of fields.
DecodeInputs(b) ==
  {[boundary |-> b, fields |-> fs] :
     fs \in UNION {FieldSeqs(k, MaxBytes, b) : k \in 0..MaxFields}}

\* A body that ends inside the payload of a last part: no delimiter follows it.
CutBody(boundary, fields, cut) ==
  PartsBytes(boundary, fields) \o DashDash \o boundary \o CRLF
  \o ContentDispositionLine(cut.name, IsFileField(cut.name)) \o CRLF \o CRLF \o cut.value

BodyOf(in) ==
  IF "parts" \in DOMAIN in THEN BuildLooseBody(in.boundary, in.parts, in.epilogue)
  ELSE IF "cut" \in DOMAIN in THEN CutBody(in.boundary, in.fields, in.cut)
  ELSE BuildBody(in.boundary, in.fields)

\* Bodies with parts of every kind, with or without bytes after the terminal
\* delimiter (a whole further part and a second terminal delimiter).
PartValues == {<<>>, <<"0xFF">>, CRLF}
EpilogueName == <<"z">>
Epilogue(b) ==
  AnyPartBytes(b, [kind |-> "named", name |-> EpilogueName, value |-> <<"0xFF">>])
  \o DashDash \o b \o DashDash \o CRLF
PartChoices ==
  {[kind |-> "named", name |-> n, value |-> v] : n \in Names, v \in PartValues}
  \cup {[kind |-> k, name |-> <<>>, value |-> v] : k \in PartKinds \ {"named"}, v \in PartValues}
RECURSIVE PartSeqs(_)
PartSeqs(k) ==
  IF k = 0 THEN {<<>>}
  ELSE PartSeqs(k - 1) \cup
       {Append(q, p) : q \in {t \in PartSeqs(k - 1) : Len(t) = k - 1}, p \in PartChoices}
LooseInputs(b) ==
  {[boundary |-> b, parts |-> ps, epilogue |-> e] :
     ps \in PartSeqs(MaxFields), e \in {<<>>, Epilogue(b)}}

LooseInit == (\E b \in Boundaries : decIn \in LooseInputs(b)) /\ decOut = <<>>

\* Bodies of complete fields followed by a part cut inside its payload.
CutInputs(b) ==
  {[boundary |-> b, fields |-> fs, cut |-> [name |-> n, value |-> v]] :
     fs \in UNION {FieldSeqs(k, 1, b) : k \in 0..MaxFields},
     n \in Names, v \in PartValues}

CutInit == (\E b \in Boundaries : decIn \in CutInputs(b)) /\ decOut = <<>>

DecodeInit == (\E b \in Boundaries : decIn \in DecodeInputs(b)) /\ decOut = <<>>

\* The 'end' event of the request: the body is parsed and the promise settles.
Decode ==
  /\ decIn # <<>>
  /\ decOut = <<>>
  /\ decOut' = <<ParseMultipartFormData(BodyOf(decIn), decIn.boundary)>>
  /\ UNCHANGED <<decIn, cvars, svars, evars>>

\* Bodies of any shape: a sequence of pieces, each a delimiter with or without
\* its CRLF, a header block with or without a name, a blank line, "--", a CRLF or
\* a payload byte.
MaxTokens == 4
Tokens == {"delimiterLine", "delimiter", "named", "nameless", "blank", "dashes",
           "crlf", "byte"}
TokenBytes(boundary, token) ==
  CASE token = "delimiterLine" -> DashDash \o boundary \o CRLF
    [] token = "delimiter" -> DashDash \o boundary
    [] token = "named" -> ContentDispositionLine(<<"a">>, FALSE) \o CRLF \o CRLF
    [] token = "nameless" -> DispositionPrefix \o CRLF \o CRLF
    [] token = "blank" -> CRLF \o CRLF
    [] token = "dashes" -> DashDash
    [] token = "crlf" -> CRLF
    [] token = "byte" -> <<"v">>

RECURSIVE TokenBody(_, _)
TokenBody(boundary, tokens) ==
  IF tokens = <<>> THEN <<>>
  ELSE TokenBytes(boundary, Head(tokens)) \o TokenBody(boundary, Tail(tokens))

ScanInputs(b) == [boundary : {b}, tokens : SeqsUpTo(Tokens, MaxTokens)]

\* Nothing has been received yet.
ScanInit == decIn = <<>> /\ decOut = <<>>

\* The 'end' handler up to the loop, on the body the request delivered:
\* position = 0 and an empty map.
ScanBegin ==
  /\ decIn = <<>>
  /\ decOut = <<>>
  /\ \E b \in Boundaries : decIn' \in ScanInputs(b)
  /\ decOut' = <<[settled |-> "scanning", position |-> 0, partStart |-> -1,
                  iterations |-> 0, formData |-> <<>>]>>
  /\ UNCHANGED <<cvars, svars, evars>>

\* The loop test and, when it passes, one iteration; resolve(formData) when the
\* loop is left.
ScanStep ==
  /\ decOut # <<>>
  /\ decOut[1].settled = "scanning"
  /\ LET buffer == TokenBody(decIn.boundary, decIn.tokens)
         now == decOut[1]
         iteration == ScanIteration(buffer, DashDash \o decIn.boundary, now.position,
                                    now.formData)
     IN  decOut' =
           IF ~(now.position < Len(buffer))
             THEN <<[now EXCEPT !.settled = "resolved"]>>
             ELSE <<[settled |-> IF iteration.done THEN "resolved" ELSE "scanning",
                     position |-> iteration.position,
                     partStart |-> iteration.partStart,
                     iterations |-> now.iterations + 1,
                     formData |-> iteration.formData]>>
  /\ UNCHANGED <<decIn, cvars, svars, evars>>

\* ---------------------------------------------------------------- encoder run
EncodeOff == encIn = <<>> /\ encOut = <<>>

Samples == {<<0, 1>>, <<1, 1>>, <<-3, 2>>}
Rates == {0, 16000, 44100}
Channels == {0, 1, 2}

EncodeInputs ==
  [buffer : SeqsUpTo(Samples, MaxSamples),
   options : [isFloat : BOOLEAN, numChannels : Channels, sampleRate : Rates,
              optimizeForWhisper : BOOLEAN, originalSampleRate : Rates,
              originalNumChannels : Channels]]

EncodeInit == encIn \in EncodeInputs /\ encOut = <<>>

\* One call of renderWavFile.
Encode ==
  /\ encIn # <<>>
  /\ encOut = <<>>
  /\ encOut' = <<RenderWavFile(encIn.buffer, encIn.options)>>
  /\ UNCHANGED <<encIn, cvars, dvars, svars>>

\* Buffers whose samples lie inside, on and outside [-1, 1], encoded to 16-bit
\* mono at the rate they have.
QuantSamples ==
  {Norm(n, d) : n \in {-5, -3, -2, -1, 0, 1, 2, 3, 5}, d \in {1, 2, 4}}
  \cup {<<1, 65534>>, <<-1, 65534>>, <<3, 65534>>}

QuantizeInputs ==
  [buffer : SeqsUpTo(QuantSamples, QuantLen) \ {<<>>},
   options : [isFloat : {FALSE}, numChannels : {1}, sampleRate : {16000},
              optimizeForWhisper : BOOLEAN, originalSampleRate : {16000},
              originalNumChannels : {1}]]

QuantizeInit == encIn \in QuantizeInputs /\ encOut = <<>>

\* Interleaved stereo silence captured at 44100 Hz, encoded with the Whisper
\* profile whatever the other options are.
Silence(frames) == [i \in 1..(2 * frames) |-> <<0, 1>>]

SilenceInputs ==
  [buffer : {Silence(frames) : frames \in 0..MaxSilenceFrames},
   options : [isFloat : BOOLEAN, numChannels : Channels, sampleRate : Rates,
              optimizeForWhisper : {TRUE}, originalSampleRate : {44100},
              originalNumChannels : {2}]]

SilenceInit == encIn \in SilenceInputs /\ encOut = <<>>

\* Calls of downsampleAudio with two positive rates, different or equal.
ResampleRates == {8000, 16000, 44100, 48000}

ResampleInputs ==
  [buffer : SeqsUpTo(Samples, MaxSamples), originalSampleRate : ResampleRates,
   targetSampleRate : ResampleRates]

ResampleInit == encIn \in ResampleInputs /\ encOut = <<>>

\* One call of downsampleAudio.
Resample ==
  /\ encIn # <<>>
  /\ encOut = <<>>
  /\ encOut' = <<DownsampleAudio(encIn.buffer, encIn.originalSampleRate,
                                 encIn.targetSampleRate)>>
  /\ UNCHANGED <<encIn, cvars, dvars, svars>>

\* Calls of stereoToMono with a channel count of 1, 2 or 3.
DownmixInputs == [buffer : SeqsUpTo(Samples, MaxSamples), numChannels : {1, 2, 3}]

DownmixInit == encIn \in DownmixInputs /\ encOut = <<>>

\* One call of stereoToMono: what it returns and whether it warned.
Downmix ==
  /\ encIn # <<>>
  /\ encOut = <<>>
  /\ encOut' = <<[result |-> StereoToMono(encIn.buffer, encIn.numChannels),
                  warned |-> StereoToMonoWarns(encIn.buffer, encIn.numChannels),
                  threw |-> FALSE]>>
  /\ UNCHANGED <<encIn, cvars, dvars, svars>>

\* The capture of one recording up to its first flush: the device delivers
\* inputBuffers of channelCount channels at sampleRate, the recorder keeps a copy
\* of channel 0 of each, and the flush renders what was kept.
MaxCallbacks == 3
DeviceRates == {16000, 44100, 48000}
DeviceChannels == {1, 2}
ChannelData == [1..FrameLen -> {<<0, 1>>, <<1, 1>>}]

\* Lines 193-200: the options processAudioChunk gives renderWavFile.
RecorderWavOptions(originalNumChannels, sampleRate) ==
  [isFloat |-> FALSE, numChannels |-> originalNumChannels, sampleRate |-> sampleRate,
   optimizeForWhisper |-> TRUE, originalNumChannels |-> originalNumChannels,
   originalSampleRate |-> sampleRate]

CaptureInit ==
  /\ encIn \in [channelCount : DeviceChannels, sampleRate : DeviceRates,
                audioChunks : {<<>>}, delivered : {0}]
  /\ encOut = <<>>

\* onaudioprocess: the inputBuffer carries channelCount channels of FrameLen
\* samples; a copy of getChannelData(0) is pushed.
CaptureFrame ==
  /\ encIn # <<>>
  /\ encOut = <<>>
  /\ Len(encIn.audioChunks) < MaxCallbacks
  /\ \E inputBuffer \in [0..(encIn.channelCount - 1) -> ChannelData] :
       encIn' = [encIn EXCEPT !.audioChunks = Append(@, inputBuffer[0]),
                              !.delivered = @ + FrameLen]
  /\ UNCHANGED <<encOut, cvars, dvars, svars>>

\* processAudioChunk: the kept frames are concatenated, the buffer is cleared and
\* the concatenation is rendered with the recorder's options.
FlushChunk ==
  /\ encIn # <<>>
  /\ encOut = <<>>
  /\ LET flushed == ProcessAudioChunk(encIn.audioChunks)
     IN  /\ flushed.blobs # <<>>
         /\ encOut' = <<[delivered |-> encIn.delivered,
                         wav |-> RenderWavFile(flushed.blobs[1],
                                   RecorderWavOptions(encIn.channelCount,
                                                      encIn.sampleRate))]>>
         /\ encIn' = [encIn EXCEPT !.audioChunks = flushed.audioChunks]
  /\ UNCHANGED <<cvars, dvars, svars>>

\* ---------------------------------------------------------------- server
ServerOff == svcType = "aws" /\ wavFile = <<>> /\ reqs = <<>>

AudioName == <<"a", "u", "d", "i", "o">>
FileName == <<"f", "i", "l", "e">>
BoundaryX == <<"X">>

\* A concatenation that keeps only the chunk received last.
BufferConcatLastOnly(chunks) == IF chunks = <<>> THEN <<>> ELSE chunks[Len(chunks)]

\* Buffer.concat(chunks): the received chunks in arrival order.
BufferConcat(chunks) == Flatten(chunks)

\* A body as the connection delivers it: in one 'data' chunk, or cut after k bytes.
OneChunk(body) == <<body>>
TwoChunks(body, k) == <<SubSeq(body, 1, k), SubSeq(body, k + 1, Len(body))>>

AudioUpload(name, u) == BuildBody(BoundaryX, <<[name |-> name, isFile |-> TRUE, value |-> u]>>)

\* The requests clients send: FormData uploads of a blob under "audio"
\* (sendAudioForTranscription) or another name, bodies cut inside a header block,
\* a multipart content-type without boundary, and raw bodies.
ServerInputs ==
  {[contentType |-> "multipart", truncated |-> FALSE, upload |-> <<"1">>,
    chunks |-> OneChunk(AudioUpload(AudioName, <<"1">>))],
   [contentType |-> "multipart", truncated |-> FALSE, upload |-> <<"2">>,
    chunks |-> OneChunk(AudioUpload(AudioName, <<"2">>))],
   [contentType |-> "multipart", truncated |-> FALSE, upload |-> <<"1">>,
    chunks |-> OneChunk(AudioUpload(FileName, <<"1">>))],
   [contentType |-> "multipart", truncated |-> TRUE, upload |-> <<"1">>,
    chunks |-> OneChunk(TruncatedBody(BoundaryX,
                 <<[name |-> AudioName, isFile |-> TRUE, value |-> <<"1">>]>>))],
   [contentType |-> "multipartNoBoundary", truncated |-> FALSE, upload |-> <<"1">>,
    chunks |-> OneChunk(AudioUpload(AudioName, <<"1">>))],
   [contentType |-> "raw", truncated |-> FALSE, upload |-> <<"1", "2">>,
    chunks |-> TwoChunks(<<"1", "2">>, 1)]}

NoResponse == [status |-> 0, transcription |-> <<>>, error |-> ""]

\* The text the transcription service returns for the audio bytes it read.
TextOf(bytes) == <<"text of">> \o bytes

\* The messages of the errors a transcription service throws.
ServiceErrors == {"Invalid response format from OpenAI API", "socket hang up"}

\* sendJsonResponse: writeHead(statusCode) and end(JSON.stringify(data)).
SendJsonResponse(req, statusCode, data) ==
  [req EXCEPT !.pc = "done", !.responses = @ + 1,
              !.response = [status |-> statusCode, transcription |-> data.transcription,
                            error |-> data.error]]

\* An error response sent with status 200.
SendErrorResponseOK(req, statusCode, message) ==
  SendJsonResponse(req, 200, [transcription |-> <<>>, error |-> message])

\* sendErrorResponse: the body is { error: message }.
SendErrorResponse(req, statusCode, message) ==
  SendJsonResponse(req, statusCode, [transcription |-> <<>>, error |-> message])

\* A request as it arrives; afterFailure records whether a service call of an
\* earlier request had already failed.
NewRequest(in, afterFailure) ==
  [input |-> in, afterFailure |-> afterFailure, chunks |-> <<>>, decoded |-> "none", handed |-> <<>>, read |-> <<>>,
   hasRead |-> FALSE, calls |-> 0, responses |-> 0, outcome |-> "none", failure |-> "",
   pc |-> "receiving", response |-> NoResponse]

ServerInit ==
  /\ svcType \in {"aws", "openai"}
  /\ wavFile = <<>>
  /\ reqs = <<>>

\* A POST /api/transcribe arrives: handleTranscribeRequest up to its first await.
\* A multipart content-type without boundary is answered 400 at once.
Arrive ==
  /\ Len(reqs) < MaxRequests
  /\ \E in \in ServerInputs :
       LET req == NewRequest(in, \E r \in 1..Len(reqs) : reqs[r].outcome = "error")
       IN  reqs' = Append(reqs,
             IF in.contentType = "multipartNoBoundary"
               THEN SendErrorResponse(req, 400,
                      "Invalid multipart/form-data request: missing boundary")
               ELSE req)
  /\ UNCHANGED <<svcType, wavFile, cvars, dvars, evars>>

\* A 'data' event (or an iteration of the for await loop): the chunk is pushed.
DataChunk ==
  \E r \in 1..Len(reqs) :
    /\ reqs[r].pc = "receiving"
    /\ Len(reqs[r].chunks) < Len(reqs[r].input.chunks)
    /\ reqs' = [reqs EXCEPT ![r] =
         [@ EXCEPT !.chunks = Append(@, reqs[r].input.chunks[Len(reqs[r].chunks) + 1])]]
    /\ UNCHANGED <<svcType, wavFile, cvars, dvars, evars>>

\* The request stream fails before its end: the promise rejects (or the for await
\* loop throws) and the catch block answers 500.
RequestError ==
  \E r \in 1..Len(reqs) :
    /\ reqs[r].pc = "receiving"
    /\ reqs' = [reqs EXCEPT ![r] =
         SendErrorResponse([@ EXCEPT !.decoded = "rejected"], 500,
                           "Error transcribing audio: " \o "aborted")]
    /\ UNCHANGED <<svcType, wavFile, cvars, dvars, evars>>

\* A failure after which the service is invoked once more before the error
\* response is sent.
ServiceFailureRetry(req, message) ==
  SendErrorResponse([req EXCEPT !.outcome = "error", !.failure = message,
                                !.calls = @ + 1],
                    500, "Error transcribing audio: " \o message)

\* Lines 115-118: the error thrown by transcribeAudio is answered with status 500
\* and its message.
ServiceFailure(req, message) ==
  SendErrorResponse([req EXCEPT !.outcome = "error", !.failure = message],
                    500, "Error transcribing audio: " \o message)

\* transcribeAudio up to its first await: AwsService reads the file at once
\* (readFileSync); OpenAIWhisperService only creates a read stream on the path.
CallService(req, file) ==
  IF svcType = "aws"
    THEN [req EXCEPT !.calls = @ + 1, !.handed = file, !.read = file, !.hasRead = TRUE,
                     !.pc = "awaitService"]
    ELSE [req EXCEPT !.calls = @ + 1, !.handed = file, !.pc = "streaming"]

\* parseMultipartFormData on each body a request can have received in full
\* (its chunks concatenated), tabulated by the chunks.
ParsedBodies ==
  [chunks \in {in.chunks : in \in ServerInputs} |->
     ParseMultipartFormData(BufferConcat(chunks), BoundaryX)]

\* handleTranscribeRequest once the body is in: the request as the handler leaves
\* it and, in write, the bytes written to WAV_FILE_PATH (none when it returned
\* before the write).
HandleBody(req) ==
  LET in == req.input
      buffer == BufferConcat(req.chunks)
      parsed == ParsedBodies[req.chunks]
  IN  IF in.contentType = "multipart"
        THEN IF parsed.settled = "rejected"
               THEN [req |-> SendErrorResponse([req EXCEPT !.decoded = "rejected"], 500,
                                               "Error transcribing audio: " \o "rejected"),
                     write |-> <<>>]
             ELSE IF AudioName \notin DOMAIN parsed.formData
               THEN [req |-> SendErrorResponse([req EXCEPT !.decoded = "resolved"], 400,
                                               "No audio file found in request"),
                     write |-> <<>>]
             ELSE [req |-> CallService([req EXCEPT !.decoded = "resolved"],
                                       parsed.formData[AudioName]),
                   write |-> <<parsed.formData[AudioName]>>]
        ELSE [req |-> CallService(req, buffer), write |-> <<buffer>>]

\* The body of a request has been received: decode it, write the audio to
\* WAV_FILE_PATH and call the transcription service.
BodyEnd ==
  \E r \in 1..Len(reqs) :
    /\ reqs[r].pc = "receiving"
    /\ Len(reqs[r].chunks) = Len(reqs[r].input.chunks)
    /\ LET handled == HandleBody(reqs[r])
       IN  /\ reqs' = [reqs EXCEPT ![r] = handled.req]
           /\ wavFile' = (IF handled.write = <<>> THEN wavFile ELSE handled.write[1])
    /\ UNCHANGED <<svcType, cvars, dvars, evars>>

\* The read stream OpenAIWhisperService created reads the file as it is now.
StreamRead ==
  \E r \in 1..Len(reqs) :
    /\ reqs[r].pc = "streaming"
    /\ reqs' = [reqs EXCEPT ![r] = [@ EXCEPT !.read = wavFile, !.hasRead = TRUE,
                                             !.pc = "awaitService"]]
    /\ UNCHANGED <<svcType, wavFile, cvars, dvars, evars>>

\* The service returns the text of what it read: 200 with the transcription.
ServiceReturns ==
  \E r \in 1..Len(reqs) :
    /\ reqs[r].pc = "awaitService"
    /\ reqs' = [reqs EXCEPT ![r] =
         SendJsonResponse([@ EXCEPT !.outcome = "text"], 200,
                          [transcription |-> TextOf(reqs[r].read), error |-> ""])]
    /\ UNCHANGED <<svcType, wavFile, cvars, dvars, evars>>

\* The service fails: the catch block answers 500 with the error's message.
ServiceFails ==
  \E r \in 1..Len(reqs), message \in ServiceErrors :
    /\ reqs[r].pc \in {"streaming", "awaitService"}
    /\ reqs' = [reqs EXCEPT ![r] = ServiceFailure(@, message)]
    /\ UNCHANGED <<svcType, wavFile, cvars, dvars, evars>>

\* ---------------------------------------------------------------- specifications
ClientOff == ClientInit

\* The capture pipeline in the browser.
Init == ClientInit /\ DecodeOff /\ ServerOff /\ EncodeOff

Next ==
  \/ StartClick /\ UNCHANGED <<dvars, svars, evars, rvars>>
  \/ StartFails /\ UNCHANGED <<dvars, svars, evars, rvars>>
  \/ StartSucceeds /\ UNCHANGED <<dvars, svars, evars, rvars>>
  \/ AudioProcess /\ UNCHANGED <<dvars, svars, evars, rvars>>
  \/ TimerFire /\ UNCHANGED <<dvars, svars, evars, rvars>>
  \/ StopClick /\ UNCHANGED <<dvars, svars, evars, rvars>>
  \/ StopClickIdle /\ UNCHANGED <<dvars, svars, evars, rvars>>
  \/ SendCompletes /\ UNCHANGED <<dvars, svars, evars, rvars>>

Spec == Init /\ [][Next]_vars

\* The same pipeline when every send that is outstanding completes at some time
\* (fetch settles: sendAudioForTranscription returns or throws).
SpecSendsComplete ==
  Init /\ [][Next]_vars /\ WF_vars(SendCompletes /\ UNCHANGED <<dvars, svars, evars, rvars>>)

\* The recorder driven through its public methods.
InitRecorder == ClientInit /\ DecodeOff /\ ServerOff /\ EncodeOff
NextRecorder ==
  \/ RecorderStart /\ UNCHANGED <<dvars, svars, evars>>
  \/ RecorderMediaGranted /\ UNCHANGED <<dvars, svars, evars>>
  \/ RecorderMediaRejected /\ UNCHANGED <<dvars, svars, evars>>
  \/ RecorderAudio /\ UNCHANGED <<dvars, svars, evars>>
  \/ RecorderTimer /\ UNCHANGED <<dvars, svars, evars>>
  \/ RecorderStop /\ UNCHANGED <<dvars, svars, evars>>
  \/ RecorderStopIdle /\ UNCHANGED <<dvars, svars, evars>>
  \/ SendCompletes /\ UNCHANGED <<dvars, svars, evars, rvars>>
SpecRecorder == InitRecorder /\ [][NextRecorder]_vars

\* Runs of the decoder's loop, iteration by iteration, on the bodies of
\* ScanInputs; the 'end' handler runs in one turn of the event loop.
InitScan == ClientOff /\ ScanInit /\ ServerOff /\ EncodeOff
NextScan == ScanBegin \/ ScanStep
SpecScan == InitScan /\ [][NextScan]_vars

\* Runs of the multipart decoder on the bodies of CutInputs.
InitCut == ClientOff /\ CutInit /\ ServerOff /\ EncodeOff
NextCut == Decode
SpecCut == InitCut /\ [][NextCut]_vars

\* Runs of the multipart decoder on the bodies of DecodeInputs.
InitDecode == ClientOff /\ DecodeInit /\ ServerOff /\ EncodeOff
NextDecode == Decode
SpecDecode == InitDecode /\ [][NextDecode]_vars

\* Runs of the multipart decoder on the bodies of LooseInputs.
InitParts == ClientOff /\ LooseInit /\ ServerOff /\ EncodeOff
NextParts == Decode
SpecParts == InitParts /\ [][NextParts]_vars

\* The transcription endpoint handling concurrent requests.
InitServer == ClientOff /\ DecodeOff /\ ServerInit /\ EncodeOff
NextServer ==
  \/ Arrive
  \/ DataChunk
  \/ BodyEnd
  \/ RequestError
  \/ StreamRead
  \/ ServiceReturns
  \/ ServiceFails
SpecServer == InitServer /\ [][NextServer]_vars

\* Runs of renderWavFile on the buffers and options of EncodeInputs.
InitEncode == ClientOff /\ DecodeOff /\ ServerOff /\ EncodeInit
NextEncode == Encode
SpecEncode == InitEncode /\ [][NextEncode]_vars

\* Runs of renderWavFile in 16-bit mode on the buffers of QuantizeInputs.
InitQuantize == ClientOff /\ DecodeOff /\ ServerOff /\ QuantizeInit
NextQuantize == Encode
SpecQuantize == InitQuantize /\ [][NextQuantize]_vars

\* Runs of downsampleAudio on the buffers and rates of ResampleInputs.
InitResample == ClientOff /\ DecodeOff /\ ServerOff /\ ResampleInit
NextResample == Resample
SpecResample == InitResample /\ [][NextResample]_vars

\* Runs of stereoToMono on the buffers and channel counts of DownmixInputs.
InitDownmix == ClientOff /\ DecodeOff /\ ServerOff /\ DownmixInit
NextDownmix == Downmix
SpecDownmix == InitDownmix /\ [][NextDownmix]_vars

\* Captures of device frames followed by one flush.
InitCapture == ClientOff /\ DecodeOff /\ ServerOff /\ CaptureInit
NextCapture == CaptureFrame \/ FlushChunk
SpecCapture == InitCapture /\ [][NextCapture]_vars

\* Runs of renderWavFile on stereo silence with the Whisper profile.
InitSilence == ClientOff /\ DecodeOff /\ ServerOff /\ SilenceInit
NextSilence == Encode
SpecSilence == InitSilence /\ [][NextSilence]_vars

\* ================================================================ claims
FourClasses == {"PermissionDenied", "DeviceNotFound", "DeviceBusy", "Unsupported"}

C2_FramesDrainedOnce ==
  /\ Flatten(drained) \o Flatten(audioChunks) = Flatten(appended)
  /\ \A i \in 1..Len(drained) : Len(drained[i]) > 0 /\ Len(drained[i]) % FrameLen = 0
  /\ \A i, j \in 1..Len(Flatten(appended)) :
       i < j => Flatten(appended)[i] < Flatten(appended)[j]
  /\ (lastOp.op = "started" => audioChunks = <<>>)
  /\ (~isRecording => audioChunks = <<>>)

\* A stop that drains the second sequence of a session in which frames arrived
\* before and after the first drain.
C2_Witness == lastOp.op = "stop" /\ lastOp.had /\ Len(drained) = 2

\* C3: a timer firing happens only while recording and calls processAudioChunk
\* once: one drain and one chunk when the buffer held frames, none when it was
\* empty; and the list of emitted chunks grows only in a timer firing or a stop,
\* by one chunk.
C3_TimerEmitsOncePerFiring ==
  /\ [](lastOp.op = "timer" =>
          /\ isRecording
          /\ lastOp.calls = 1
          /\ lastOp.drains = (IF lastOp.had THEN 1 ELSE 0)
          /\ lastOp.emits = (IF lastOp.had THEN 1 ELSE 0))
  /\ [][emitted' # emitted =>
          /\ lastOp'.op \in {"timer", "stop"}
          /\ Len(emitted') = Len(emitted) + 1
          /\ SubSeq(emitted', 1, Len(emitted)) = emitted]_vars

\* A timer firing that found frames and emitted a chunk after an earlier chunk.
C3_Witness == lastOp.op = "timer" /\ lastOp.had /\ lastOp.emits = 1 /\ Len(emitted) = 2

\* C4: whatever the number of outstanding sends, the device callback can append
\* whenever the processor is connected (and the device has frames left to
\* deliver) and the timer can fire whenever an interval is live.
C4_EmitNeverBlocksCapture ==
  /\ (dev.processor /\ nextSample <= MaxFrames * FrameLen) => ENABLED AudioProcess
  /\ (timers > 0) => ENABLED TimerFire

\* A device callback that appended while two sends were outstanding.
C4_Witness == lastOp.op = "audio" /\ lastOp.pending >= 2 /\ Cardinality(outstanding) >= 2

\* C5: after a failed startRecording the recorder and the App are Idle with no
\* timer, and the error the recorder threw is of one of the four classes.
C5_StartFailureClassified ==
  (lastOp.op \in {"start", "startFailed"} /\ surfaced # "none") =>
    /\ ~isRecording
    /\ ~appIsRecording
    /\ timers = 0
    /\ intervalId = "null"
    /\ ErrorClass(surfaced) \in FourClasses

\* C6: every request's transcription service reads exactly the bytes that
\* request uploaded, and a 200 response carries the text of its own audio.
C6_RequestsIndependent ==
  \A r \in 1..Len(reqs) :
    /\ reqs[r].hasRead => reqs[r].read = reqs[r].input.upload
    /\ reqs[r].response.status = 200 =>
         reqs[r].response.transcription = TextOf(reqs[r].input.upload)

RECURSIVE ExpectedFields(_, _)
ExpectedFields(fields, formData) ==
  IF fields = <<>> THEN formData
  ELSE ExpectedFields(Tail(fields), SetField(formData, Head(fields).name, Head(fields).value))

\* C7: decoding the complete body built from a boundary and a list of named
\* fields whose payloads do not contain the delimiter resolves with exactly the
\* fields' names, each mapped to its payload byte for byte (the payload of the
\* last field of a name when a name repeats), the CRLF before the next delimiter
\* excluded.
C7_MultipartRoundTrip ==
  decOut # <<>> =>
    /\ decOut[1].settled = "resolved"
    /\ decOut[1].formData = ExpectedFields(decIn.fields, <<>>)

\* A decoded two-field body whose first payload is a bare CRLF and whose second
\* payload is empty.
C7_Witness ==
  /\ decOut # <<>>
  /\ Len(decIn.fields) = 2
  /\ decIn.fields[1].name # decIn.fields[2].name
  /\ decIn.fields[1].value = CRLF
  /\ decIn.fields[2].value = <<>>
  /\ DOMAIN decOut[1].formData = Names

\* C8: a request whose body ends inside a header block is rejected by the
\* decoder (the promise rejects), the transcription service is never called for
\* it and its response is an error.
C8_UnterminatedHeaderRejected ==
  \A r \in 1..Len(reqs) :
    (reqs[r].input.truncated /\ reqs[r].pc # "receiving") =>
      /\ reqs[r].decoded = "rejected"
      /\ reqs[r].calls = 0
      /\ (reqs[r].pc = "done" => reqs[r].response.status >= 400)

\* C9: the bytes renderWavFile returns have length 44 + dataSize, dataSize being
\* the 32-bit value at header offset 40.
C9_LengthMatchesDataSize ==
  encOut # <<>> => Len(encOut[1]) = 44 + ReadU32(encOut[1], 40)

\* C10: with optimizeForWhisper set the resolved target is 16000 Hz, 1 channel,
\* 16-bit integer whatever the other options are, and the header reads back
\* sampleRate 16000, numChannels 1, bitsPerSample 16, audioFormat 1.
C10_WhisperProfileOverrides ==
  (encOut # <<>> /\ encIn.options.optimizeForWhisper) =>
    /\ ResolveProfile(encIn.options).targetSampleRate = 16000
    /\ ResolveProfile(encIn.options).targetNumChannels = 1
    /\ ~ResolveProfile(encIn.options).useFloat
    /\ ReadU32(encOut[1], 24) = 16000
    /\ ReadU16(encOut[1], 22) = 1
    /\ ReadU16(encOut[1], 34) = 16
    /\ ReadU16(encOut[1], 20) = 1

\* An optimized encoding of a non-empty buffer whose options ask for float,
\* stereo, 44100 Hz.
C10_Witness ==
  /\ encOut # <<>>
  /\ encIn.options.optimizeForWhisper
  /\ encIn.options.isFloat
  /\ encIn.options.numChannels = 2
  /\ encIn.options.sampleRate = 44100
  /\ encIn.options.originalNumChannels = 1
  /\ Len(encIn.buffer) = MaxSamples
  /\ Len(encOut[1]) > 44

\* C11: a multipart request with a boundary whose complete body carries one
\* file-bearing field, whatever the field's name, is accepted once decoded: the
\* transcription service is called once with the bytes of that field and the
\* request is not answered 400.
C11_AnyFieldNameAccepted ==
  \A r \in 1..Len(reqs) :
    (/\ reqs[r].input.contentType = "multipart"
     /\ ~reqs[r].input.truncated
     /\ reqs[r].decoded = "resolved") =>
      /\ reqs[r].calls = 1
      /\ reqs[r].handed = reqs[r].input.upload
      /\ reqs[r].response.status # 400

\* The request carries audio bytes the handler can obtain: a raw body, or a
\* multipart body with a boundary in which the decoder finds an "audio" field.
AudioInputs ==
  {in \in ServerInputs :
     \/ in.contentType = "raw"
     \/ /\ in.contentType = "multipart"
        /\ AudioName \in
             DOMAIN ParseMultipartFormData(Flatten(in.chunks), BoundaryX).formData}
HasAudio(in) == in \in AudioInputs

\* C12: a request has no response while it is handled and exactly one when it
\* is done; the response is 200 with the transcription exactly when the service
\* returned text for the request, otherwise it has a 4xx/5xx status and an error
\* message; the service is called only after the whole body was received and
\* held audio bytes, and a multipart request without boundary or without audio
\* field is answered 400 without a service call.
C12_OneResponsePerRequest ==
  \A r \in 1..Len(reqs) :
    LET q == reqs[r] IN
    /\ q.responses = (IF q.pc = "done" THEN 1 ELSE 0)
    /\ (q.pc # "done" => q.response = NoResponse)
    /\ (q.pc = "done" => (q.response.status = 200 <=> q.outcome = "text"))
    /\ (q.response.status = 200 =>
          q.response.transcription = TextOf(q.read) /\ q.response.error = "")
    /\ ((q.pc = "done" /\ q.response.status # 200) =>
          /\ q.response.status \in 400..599
          /\ q.response.error # ""
          /\ q.response.transcription = <<>>)
    /\ (q.calls > 0 => (HasAudio(q.input) /\ q.chunks = q.input.chunks))
    /\ ((q.pc = "done" /\ q.decoded # "rejected" /\ ~HasAudio(q.input)) =>
          q.response.status \in 400..499 /\ q.calls = 0)

\* Two finished requests: one answered 200 with a transcription, one multipart
\* request without audio field answered 400 without a service call.
C12_Witness ==
  /\ Len(reqs) = 2
  /\ reqs[1].pc = "done" /\ reqs[1].response.status = 200 /\ reqs[1].calls = 1
  /\ reqs[2].pc = "done" /\ reqs[2].response.status = 400 /\ reqs[2].calls = 0
  /\ reqs[2].decoded = "resolved"

\* C13: a request whose service call failed has had one service call and one
\* response, a 5xx carrying the failure's message; no other request's response
\* carries a service failure; and after a failure the server still accepts a
\* request and still completes the requests in flight.
C13_ServiceFailureScoped ==
  /\ \A r \in 1..Len(reqs) :
       LET q == reqs[r] IN
       /\ (q.outcome = "error" =>
             /\ q.calls = 1
             /\ q.responses = 1
             /\ q.response.status \in 500..599
             /\ q.failure \in ServiceErrors
             /\ q.response.error = "Error transcribing audio: " \o q.failure)
       /\ (q.outcome # "error" =>
             /\ q.failure = ""
             /\ \A m \in ServiceErrors :
                  q.response.error # "Error transcribing audio: " \o m)
  /\ (\E r \in 1..Len(reqs) : reqs[r].outcome = "error") =>
       /\ (Len(reqs) < MaxRequests => ENABLED Arrive)
       /\ ((\E r \in 1..Len(reqs) :
               /\ reqs[r].pc = "receiving"
               /\ Len(reqs[r].chunks) < Len(reqs[r].input.chunks)) => ENABLED DataChunk)
       /\ ((\E r \in 1..Len(reqs) : reqs[r].pc = "awaitService") =>
             ENABLED ServiceReturns)

\* The first request's service call failed, the second request arrived after
\* that and was answered 200 with the transcription of its own audio.
C13_Witness ==
  /\ Len(reqs) = 2
  /\ reqs[1].outcome = "error" /\ reqs[1].pc = "done"
  /\ reqs[2].afterFailure
  /\ reqs[2].outcome = "text" /\ reqs[2].response.status = 200
  /\ reqs[2].response.transcription = TextOf(reqs[2].input.upload)

\* C14: for a request that is not multipart the handler calls the service only
\* after every chunk arrived, and the bytes it wrote to the file it hands to the
\* service are the received chunks concatenated in arrival order, which is the
\* whole body; a service that reads the file in the call reads exactly them.
C14_RawBodyHandedWhole ==
  \A r \in 1..Len(reqs) :
    (reqs[r].input.contentType = "raw" /\ reqs[r].calls > 0) =>
      /\ reqs[r].chunks = reqs[r].input.chunks
      /\ reqs[r].handed = Flatten(reqs[r].input.chunks)
      /\ reqs[r].handed = reqs[r].input.upload
      /\ (svcType = "aws" => reqs[r].hasRead /\ reqs[r].read = reqs[r].handed)

\* A raw body that arrived in two chunks was handed to the service and answered.
C14_Witness ==
  \E r \in 1..Len(reqs) :
    /\ reqs[r].input.contentType = "raw"
    /\ Len(reqs[r].chunks) = 2
    /\ reqs[r].handed = <<"1", "2">>
    /\ reqs[r].response.status = 200

NamesOf(fields) == {fields[i].name : i \in 1..Len(fields)}
LastValue(fields, n) ==
  fields[CHOOSE i \in 1..Len(fields) :
           fields[i].name = n /\ \A j \in (i + 1)..Len(fields) : fields[j].name # n].value

\* C15: the decoded mapping has exactly the distinct field names of the body as
\* its keys, and each name maps to the payload of the last part of that name in
\* body order.
C15_DuplicateNamesLastWins ==
  decOut # <<>> =>
    /\ DOMAIN decOut[1].formData = NamesOf(decIn.fields)
    /\ \A n \in NamesOf(decIn.fields) :
         decOut[1].formData[n] = LastValue(decIn.fields, n)

\* A decoded body with two parts of one name and different payloads.
C15_Witness ==
  /\ decOut # <<>>
  /\ Len(decIn.fields) = 2
  /\ decIn.fields[1].name = decIn.fields[2].name
  /\ decIn.fields[1].value = <<"0xFF">>
  /\ decIn.fields[2].value = <<"X">>
  /\ decOut[1].formData[decIn.fields[1].name] = <<"X">>

RECURSIVE NamedParts(_)
NamedParts(parts) ==
  IF parts = <<>> THEN <<>>
  ELSE (IF Head(parts).kind = "named" THEN <<Head(parts)>> ELSE <<>>)
       \o NamedParts(Tail(parts))

\* C16: decoding a body in which some parts have no content-disposition header
\* or a content-disposition without name parameter resolves, and the mapping
\* holds exactly the named parts, each with its payload: the other parts
\* contribute nothing.
C16_NamelessPartsSkipped ==
  decOut # <<>> =>
    /\ decOut[1].settled = "resolved"
    /\ decOut[1].formData = ExpectedFields(NamedParts(decIn.parts), <<>>)

\* C17: bytes after the terminal delimiter change nothing: the mapping is the
\* one decoded from the body without them, the name of a part placed after the
\* terminal delimiter is not a key, and every named part before the terminal
\* delimiter is a key with the payload of the last part of its name.
C17_StopsAtTerminalDelimiter ==
  decOut # <<>> =>
    /\ decOut[1].formData =
         ParseMultipartFormData(BuildLooseBody(decIn.boundary, decIn.parts, <<>>),
                                decIn.boundary).formData
    /\ EpilogueName \notin DOMAIN decOut[1].formData
    /\ \A n \in NamesOf(NamedParts(decIn.parts)) :
         /\ n \in DOMAIN decOut[1].formData
         /\ decOut[1].formData[n] = LastValue(NamedParts(decIn.parts), n)

\* A decoded body of two named parts followed, after the terminal delimiter, by
\* a further part.
C17_Witness ==
  /\ decOut # <<>>
  /\ decIn.epilogue # <<>>
  /\ Len(decIn.parts) = 2
  /\ \A i \in 1..2 : decIn.parts[i].kind = "named"
  /\ DOMAIN decOut[1].formData = Names

\* C18: in 16-bit mode the value stored for every sample lies in
\* [-32767, 32767]; 1 gives 32767, -1 gives -32767, 0 gives 0, every sample
\* above 1 gives 32767, every sample below -1 gives -32767, and a sample n/d
\* inside [-1, 1] gives an integer within one half of 32767 * n/d.
C18_QuantizeClampedSymmetric ==
  encOut # <<>> =>
    \A i \in 1..Len(encIn.buffer) :
      LET s == encIn.buffer[i]
          q == ReadI16(encOut[1], 44 + 2 * (i - 1))
      IN  /\ q \in -32767..32767
          /\ (s = <<1, 1>> => q = 32767)
          /\ (s = <<-1, 1>> => q = -32767)
          /\ (s[1] = 0 => q = 0)
          /\ (RLess(<<1, 1>>, s) => q = 32767)
          /\ (RLess(s, <<-1, 1>>) => q = -32767)
          /\ ((~RLess(<<1, 1>>, s) /\ ~RLess(s, <<-1, 1>>)) =>
                Abs(2 * q * s[2] - 2 * 32767 * s[1]) <= s[2])

\* An encoded buffer holding a sample below -1 and the sample -1.
C18_Witness ==
  /\ encOut # <<>>
  /\ encIn.buffer = <<<<-5, 4>>, <<-1, 1>>>>
  /\ ReadI16(encOut[1], 44) = -32767
  /\ ReadI16(encOut[1], 46) = -32767

\* C19: downsampleAudio called with two different positive rates returns a
\* sequence of length floor(N * target / original), N being the length of the
\* buffer: the largest L with L * original <= N * target.
C19_ResampleLength ==
  encOut # <<>> =>
    LET N == Len(encIn.buffer)
        L == Len(encOut[1])
    IN  /\ L = (N * encIn.targetSampleRate) \div encIn.originalSampleRate
        /\ L * encIn.originalSampleRate <= N * encIn.targetSampleRate
        /\ N * encIn.targetSampleRate < (L + 1) * encIn.originalSampleRate
        /\ ((encIn.originalSampleRate = 44100 /\ encIn.targetSampleRate = 16000) =>
              L = (N * 16000) \div 44100)

\* An upsampling of a full buffer from 16000 Hz to 44100 Hz.
C19_Witness ==
  /\ encOut # <<>>
  /\ encIn.originalSampleRate = 16000
  /\ encIn.targetSampleRate = 44100
  /\ Len(encIn.buffer) = MaxSamples
  /\ Len(encOut[1]) > Len(encIn.buffer)

\* C20: the Whisper encoding of interleaved stereo silence of frames sample
\* periods at 44100 Hz has sampleRate 16000, 1 channel, 16 bits per sample,
\* dataSize floor(frames * 16000 / 44100) * 2, that many payload bytes, and
\* every payload byte is zero.
C20_SilenceEndToEnd ==
  encOut # <<>> =>
    LET frames == Len(encIn.buffer) \div 2
        dataSize == ((frames * 16000) \div 44100) * 2
    IN  /\ ReadU32(encOut[1], 24) = 16000
        /\ ReadU16(encOut[1], 22) = 1
        /\ ReadU16(encOut[1], 34) = 16
        /\ ReadU32(encOut[1], 40) = dataSize
        /\ Len(encOut[1]) = 44 + dataSize
        /\ \A i \in 45..Len(encOut[1]) : encOut[1][i] = 0

\* The encoding of the longest silent capture, which has payload bytes.
C20_Witness ==
  /\ encOut # <<>>
  /\ Len(encIn.buffer) = 2 * MaxSilenceFrames
  /\ ReadU32(encOut[1], 40) > 0
  /\ Len(encOut[1]) > 44

\* C21: downsampleAudio called with the same rate twice returns the buffer it
\* was given: same length, same samples in the same order.
C21_ResampleSameRateIdentity ==
  (encOut # <<>> /\ encIn.originalSampleRate = encIn.targetSampleRate) =>
    /\ Len(encOut[1]) = Len(encIn.buffer)
    /\ \A i \in 1..Len(encIn.buffer) : encOut[1][i] = encIn.buffer[i]

\* A full buffer of different samples resampled from 44100 Hz to 44100 Hz.
C21_Witness ==
  /\ encOut # <<>>
  /\ encIn.originalSampleRate = 44100
  /\ encIn.targetSampleRate = 44100
  /\ Len(encIn.buffer) = MaxSamples
  /\ encIn.buffer[1] # encIn.buffer[2]
  /\ encOut[1] = encIn.buffer

\* C22: stereoToMono called with one channel returns the buffer it was given:
\* same length, same samples in the same order, no warning.
C22_DownmixOneChannelIdentity ==
  (encOut # <<>> /\ encIn.numChannels = 1) =>
    /\ Len(encOut[1].result) = Len(encIn.buffer)
    /\ \A i \in 1..Len(encIn.buffer) : encOut[1].result[i] = encIn.buffer[i]
    /\ ~encOut[1].warned

\* A one-channel downmix of a full buffer of different samples.
C22_Witness ==
  /\ encOut # <<>>
  /\ encIn.numChannels = 1
  /\ Len(encIn.buffer) = MaxSamples
  /\ encIn.buffer[1] # encIn.buffer[2]
  /\ encOut[1].result = encIn.buffer

\* C28: for more than one channel stereoToMono returns floor(len/numChannels)
\* samples and never throws; when len is a multiple of numChannels, sample i is
\* numChannels times smaller than the sum of the i-th interleaved group and
\* there is no warning; otherwise the result is the first floor(len/numChannels)
\* samples of the buffer and a warning is logged.
C28_DownmixMeanOrTruncate ==
  (encOut # <<>> /\ encIn.numChannels > 1) =>
    LET n == encIn.numChannels
        len == Len(encIn.buffer)
        out == encOut[1].result
        GroupSum[i \in 1..(len \div n), c \in 0..n] ==
          IF c = 0 THEN <<0, 1>>
          ELSE RAdd(GroupSum[i, c - 1], encIn.buffer[(i - 1) * n + c])
    IN  /\ Len(out) = len \div n
        /\ ~encOut[1].threw
        /\ (len % n = 0 =>
              /\ ~encOut[1].warned
              /\ \A i \in 1..(len \div n) : RMul(out[i], <<n, 1>>) = GroupSum[i, n])
        /\ (len % n # 0 =>
              /\ encOut[1].warned
              /\ \A i \in 1..(len \div n) : out[i] = encIn.buffer[i])

\* A three-channel downmix of one interleaved group of different samples.
C28_Witness ==
  /\ encOut # <<>>
  /\ encIn.numChannels = 3
  /\ encIn.buffer = <<<<1, 1>>, <<0, 1>>, <<-3, 2>>>>
  /\ encOut[1].result = <<<<-1, 6>>>>
  /\ ~encOut[1].warned

\* The payload bytes of a sample sequence in the resolved sample format.
PayloadOf(samples, useFloat) ==
  IF useFloat THEN Float32ArrayBytes(samples)
  ELSE Int16ArrayBytes([i \in 1..Len(samples) |-> QuantizeSample(samples[i])])

\* The profile has more than one source channel, one target channel and two
\* different rates.
BothStepsApply(profile) ==
  /\ profile.originalNumChannels > 1
  /\ profile.targetNumChannels = 1
  /\ profile.originalSampleRate # profile.targetSampleRate

\* The payload of resampling the interleaved input and mixing down afterwards.
ResampleFirstPayload(in) ==
  LET profile == ResolveProfile(in.options)
  IN  PayloadOf(StereoToMono(DownsampleAudio(in.buffer, profile.originalSampleRate,
                                             profile.targetSampleRate),
                             profile.originalNumChannels), profile.useFloat)

\* C27: whenever both the mono conversion and the resampling apply, the bytes
\* after the 44-byte header are the encoding of the resampling of the mono
\* conversion of the input, in that order.
C27_MixThenResample ==
  (encOut # <<>> /\ BothStepsApply(ResolveProfile(encIn.options))) =>
    LET profile == ResolveProfile(encIn.options)
    IN  SubSeq(encOut[1], 45, Len(encOut[1])) =
          PayloadOf(DownsampleAudio(StereoToMono(encIn.buffer,
                                                 profile.originalNumChannels),
                                    profile.originalSampleRate,
                                    profile.targetSampleRate), profile.useFloat)

\* Two stereo samples 0 and 1 at 16000 Hz encoded to 16-bit mono at 44100 Hz:
\* the payload is their mean twice, which resampling first would not give.
C27_Witness ==
  /\ encOut # <<>>
  /\ BothStepsApply(ResolveProfile(encIn.options))
  /\ encIn.buffer = <<<<0, 1>>, <<1, 1>>>>
  /\ ResolveProfile(encIn.options).originalSampleRate = 16000
  /\ ResolveProfile(encIn.options).targetSampleRate = 44100
  /\ ~ResolveProfile(encIn.options).useFloat
  /\ SubSeq(encOut[1], 45, Len(encOut[1])) = <<0, 64, 0, 64>>
  /\ SubSeq(encOut[1], 45, Len(encOut[1])) # ResampleFirstPayload(encIn)

\* C29: the returned bytes start with a 44-byte header: "RIFF" at 0, chunkSize
\* at 4 equal to dataSize (at 40) + 36, "WAVE" at 8, "fmt " at 12, 16 at 16,
\* audioFormat at 20 (1 for 16-bit integer, 3 for float), numChannels at 22,
\* sampleRate at 24, byteRate at 28 equal to sampleRate * blockAlign, blockAlign
\* at 32 equal to numChannels * bytesPerSample, bitsPerSample at 34 equal to
\* 8 * bytesPerSample, "data" at 36, every number little-endian, and the payload
\* follows at byte 44.
C29_HeaderDerivedFields ==
  encOut # <<>> =>
    LET h == encOut[1]
        profile == ResolveProfile(encIn.options)
        bytesPerSample == IF profile.useFloat THEN 4 ELSE 2
    IN  /\ Len(h) >= 44
        /\ SubSeq(h, 1, 4) = <<82, 73, 70, 70>>
        /\ SubSeq(h, 9, 16) = <<87, 65, 86, 69, 102, 109, 116, 32>>
        /\ SubSeq(h, 37, 40) = <<100, 97, 116, 97>>
        /\ \A k \in 1..44 : h[k] \in 0..255
        /\ ReadU32(h, 4) = ReadU32(h, 40) + 36
        /\ ReadU32(h, 16) = 16
        /\ ReadU16(h, 20) = (IF profile.useFloat THEN 3 ELSE 1)
        /\ ReadU16(h, 22) = profile.targetNumChannels
        /\ ReadU32(h, 24) = profile.targetSampleRate
        /\ ReadU16(h, 32) = ReadU16(h, 22) * bytesPerSample
        /\ ReadU32(h, 28) = ReadU32(h, 24) * ReadU16(h, 32)
        /\ ReadU16(h, 34) = 8 * bytesPerSample
        /\ SubSeq(h, 45, Len(h)) = PayloadOf(ProcessBuffer(encIn.buffer, profile),
                                             profile.useFloat)

\* A float stereo encoding at 44100 Hz of a full buffer: byteRate 352800,
\* blockAlign 8, 32 bits per sample, format 3.
C29_Witness ==
  /\ encOut # <<>>
  /\ ResolveProfile(encIn.options).useFloat
  /\ Len(encIn.buffer) = MaxSamples
  /\ ReadU16(encOut[1], 22) = 2
  /\ ReadU32(encOut[1], 24) = 44100
  /\ ReadU32(encOut[1], 28) = 352800
  /\ ReadU16(encOut[1], 32) = 8
  /\ ReadU16(encOut[1], 34) = 32
  /\ ReadU16(encOut[1], 20) = 3

\* C23: once a request has been answered, the audio bytes it delivered are not
\* the content of temp/out.wav any more (nor held anywhere else in the server).
C23_NoPersistedState ==
  \A r \in 1..Len(reqs) :
    (reqs[r].pc = "done" /\ reqs[r].calls > 0) => wavFile # reqs[r].handed

\* C26: a flush after the device delivered N sample periods at rate R, whatever
\* its channel count, emits a container of floor(N * 16000 / R) 16-bit frames.
C26_DurationPreserved ==
  encOut # <<>> =>
    (Len(encOut[1].wav) - 44) \div 2 = (encOut[1].delivered * 16000) \div encIn.sampleRate

\* C25: whenever the recorder is idle (isRecording false and no startRecording
\* in progress) it holds no stream, audio context, source, analyser or processor
\* and no interval.
C25_IdleHoldsNothing ==
  (~isRecording /\ startPc = "idle") =>
    (dev = NoDev /\ timers = 0 /\ intervalId = "null")

\* C24: at any time at most one interval and one device stream are live, and
\* once the recorder has stopped with no startRecording suspended, no interval
\* is left to emit a chunk and no stream is left open.
C24_OneTimerOneStream ==
  /\ timers <= 1
  /\ liveStreams <= 1
  /\ (~isRecording /\ pendingStarts = 0) => (timers = 0 /\ liveStreams = 0)

\* An iteration that goes on moved the scan offset forward and found its
\* delimiter further right than the one before.
ScanAdvances ==
  (decOut # <<>> /\ decOut' # <<>> /\ decOut'[1].settled = "scanning") =>
    /\ decOut'[1].position > decOut[1].position
    /\ decOut'[1].partStart > decOut[1].partStart

\* C30: on every body and boundary the scan offset strictly increases with each
\* iteration that continues the loop, skipping ones included, no delimiter
\* offset is taken as a part start twice, the loop runs at most once per byte of
\* the body (so it ends), and the decoding resolves with the map the whole pass
\* computes.
C30_DecodeTerminates ==
  /\ [][ScanAdvances]_vars
  /\ [](decOut # <<>> => decOut[1].iterations <= Len(TokenBody(decIn.boundary, decIn.tokens)))
  /\ [](decOut # <<>> /\ decOut[1].settled = "resolved" =>
          decOut[1].formData =
            ParseMultipartFormData(TokenBody(decIn.boundary, decIn.tokens),
                                   decIn.boundary).formData)

\* A scan that skipped a nameless part, stored the named part after it and
\* ended: three iterations, each further right.
C30_Witness ==
  /\ decOut # <<>>
  /\ decOut[1].settled = "resolved"
  /\ decIn.tokens = <<"delimiterLine", "nameless", "delimiterLine", "named">>
  /\ decOut[1].iterations = 2
  /\ decOut[1].position > 0

\* C31: decoding a body that ends inside the payload of its last part resolves,
\* and the mapping is exactly that of the complete parts before it: the cut part
\* adds no field and changes none.
C31_CutPayloadNotStored ==
  (decOut # <<>> /\ "cut" \in DOMAIN decIn) =>
    /\ decOut[1].settled = "resolved"
    /\ decOut[1].formData = ExpectedFields(decIn.fields, <<>>)

\* A decoded body with one complete field "a" and a cut part "B" that carries a
\* payload byte: only "a" is in the mapping.
C31_Witness ==
  /\ decOut # <<>>
  /\ "cut" \in DOMAIN decIn
  /\ Len(decIn.fields) = 1
  /\ decIn.fields[1].name = <<"a">>
  /\ decIn.fields[1].value = <<"X">>
  /\ decIn.cut.value = <<"0xFF">>
  /\ decIn.cut.name = <<"B">>
  /\ DOMAIN decOut[1].formData = {<<"a">>}

\* C32: the transcription history lists the texts in the order in which their
\* chunks were emitted by the recorder.
C32_HistoryInEmissionOrder ==
  \A i, j \in 1..Len(transcriptionHistory) :
    i < j => transcriptionHistory[i] < transcriptionHistory[j]

\* C33: once the status is "Processing final audio..." it becomes "Ready" or an
\* error message at some later time, unless the user starts a recording again
\* first.
C33_FinalStatusSettles ==
  (statusText = "Processing final audio...")
    ~> (\/ statusText \in {"Ready", "Error: send failed", "Error: start failed"}
        \/ startPc # "idle"
        \/ appIsRecording)

\* What a no-op must leave alone: the recording state, the held resources, the
\* interval, the buffer, the chunks emitted and the suspended starts.
RecorderUntouched ==
  UNCHANGED <<isRecording, intervalId, dev, timers, audioChunks, emitted, drained,
              outstanding, pendingStarts, liveStreams, liveProcessors>>

\* C34: a startRecording invoked while the recorder is recording and a
\* stopRecording invoked while it is not recording acquire and release nothing,
\* create and clear no interval, emit no chunk and leave the buffer and
\* isRecording as they were.
C34_GuardedCallsAreNoOps ==
  [][(\/ isRecording /\ lastOp'.op = "startIgnored"
      \/ ~isRecording /\ lastOp'.op = "stopIgnored") => RecorderUntouched]_vars

\* A startRecording that returned at once on a recorder that holds a buffered
\* frame and its interval.
C34_Witness ==
  /\ lastOp.op = "startIgnored"
  /\ isRecording
  /\ Len(audioChunks) > 0
  /\ timers = 1
  /\ pendingStarts = 0
  /\ dev = AllDev

====
